---- MODULE Spec2Model ----
(***************************************************************************)
(* Model of the tracking-and-actuation core of robo_spritz:                *)
(*   - the direction estimator (direction_module.py, directions_module.py) *)
(*   - the UscCmd process driver `Controller` (maestro_linux_driver.py)    *)
(*   - the serial driver `MaestroServoController` (maestro_controller.py)  *)
(*   - the control loop `main` (control_water_gun.py)                      *)
(* Each program part has its own specification over the shared variables;  *)
(* the variables of the parts a specification does not run stay at their   *)
(* initial values.                                                         *)
(***************************************************************************)
EXTENDS Integers, Sequences, FiniteSets

VARIABLES
    \* ---- direction estimator ----
    dFrame,      \* the frame handed to the estimator (absent, or size + detector boxes)
    dTol,        \* self.tolerance
    dDone,       \* the estimator methods that have returned
    dOut,        \* (h, v) returned by Direction_Module.get_direction
    dOut2,       \* (horizontal, vertical) returned by Directions_Module.get_face_direction
    dOut3,       \* (horizontal, vertical) computed inline by capture_images
    \* ---- Controller (UscCmd process driver) ----
    cmdLog,      \* every invocation of the executable, in order:
                 \* [ch, target, run, rc, success]
    drvPc,       \* "idle" | "call" | "sleep" | "stop" | "done" | "checked"
    drvCall,     \* the call being served: [op, ch, target, validate, dir, speed, dur]
    drvOutcome,  \* "none" | "returned" | "ValueError" | "KeyboardInterrupt" | "RuntimeError"
    drvResult,   \* the ServoCommandResult handed back to the caller: <<>> or <<result>>
    \* ---- MaestroServoController (serial driver) ----
    mConnected,  \* self.controller is not None
    mLink,       \* the serial link: "none" | "open" | "closed"
    mCloses,     \* how many times close() has been invoked
    mProfile,    \* "standard" | "fs90r"
    mLog,        \* every setTarget that reached the device, in order: [ch, target]
    mPc,         \* "idle" | "call" | "sweep" | "calibrate" | "closing" | "done"
    mCall,       \* the call being served: [op, ch, position, direction, speed, exit, body]
    mOutcome,    \* "none" | "returned" | "RuntimeError" | "SerialException"
    mChannel,    \* loop variable `channel` of stop_all, index into test_positions
    \* ---- control loop main() ----
    pc,          \* position of main
    args,        \* parsed command line: [delay, disable_horizontal, disable_vertical]
    now,         \* the wall clock
    last_movement,
    frame,       \* the frame of the current cycle
    direction,   \* (h, v) of the current cycle
    cameraOpen,  \* the Frame Source is started and not released
    exitKind,    \* how main ended
    actTimes,    \* clock readings of the cycles that issued a hardware command
    cycleCmds,   \* hardware commands issued so far in the current cycle
    cycleSeen,   \* what the current cycle has done: [frame, direction]
    inFlight,    \* channels whose UscCmd process subprocess.run is waiting for
    \* ---- capture_images() (camera_capture.py) ----
    cPc,         \* position of capture_images
    cNow,        \* time.time()
    cFaces,      \* the detector's boxes for the frame of the current iteration
    cDir,        \* (horizontal, vertical) of the current iteration
    last_save_time,
    cSaves,      \* clock readings at which an image was written, in order
    cCamera,     \* the capture device: "open" | "failed" | "released"
    \* ---- interactive_test() (channels_test.py) ----
    iPc,         \* position of interactive_test
    iCount,      \* input lines read so far
    iCommand,    \* the input line being handled, split into words
    iPrinted,    \* the message the last handled line printed ("" for none)
    \* ---- ServoChannelTester (channels_test.py) ----
    tPc,         \* position of the test being run
    tCall,       \* the test called: [op, ch, steps]
    tQueue,      \* controller calls the running test function has yet to make
    tChannel,    \* loop variable `channel` of test_all_channels
    tOutcome     \* "none" | "returned" | the exception that ended the test

dirVars  == <<dFrame, dTol, dDone, dOut, dOut2, dOut3>>
drvVars  == <<cmdLog, drvPc, drvCall, drvOutcome, drvResult>>
mVars    == <<mConnected, mLink, mCloses, mProfile, mLog, mPc, mCall, mOutcome, mChannel>>
mainVars == <<pc, args, now, last_movement, frame, direction, cameraOpen, exitKind,
              actTimes, cycleCmds, cycleSeen, inFlight>>
capVars  == <<cPc, cNow, cFaces, cDir, last_save_time, cSaves, cCamera>>
iVars    == <<iPc, iCount, iCommand, iPrinted>>
tVars    == <<tPc, tCall, tQueue, tChannel, tOutcome>>
vars     == <<dirVars, drvVars, mVars, mainVars, capVars, iVars, tVars>>

\* What the actions of one program part leave alone.
dirOthers  == <<drvVars, mVars, mainVars, capVars, iVars, tVars>>
drvOthers  == <<dirVars, mVars, mainVars, capVars, iVars, tVars>>
mOthers    == <<dirVars, drvVars, mainVars, capVars, iVars, tVars>>
mainOthers == <<dirVars, mVars, drvPc, drvCall, drvOutcome, drvResult, capVars, iVars, tVars>>
capOthers  == <<dirVars, drvVars, mVars, mainVars, iVars, tVars>>
iOthers    == <<dirVars, drvVars, mainVars, capVars, tVars>>
tOthers    == <<dirVars, drvVars, mainVars, capVars, iVars>>

(***************************************************************************)
(* Python helpers                                                          *)
(***************************************************************************)
\* Python's // on integers (floor division); the divisor is positive here.
FloorDiv(a, b) == a \div b

Abs(a) == IF a < 0 THEN -a ELSE a

Max(a, b) == IF a >= b THEN a ELSE b

Min(a, b) == IF a <= b THEN a ELSE b

(***************************************************************************)
(* Direction estimator                                                     *)
(***************************************************************************)
\* Bounds of the estimator's inputs.
MaxDim == 6
MaxTol == 2
MaxExtra == 1

NoFrame == [present |-> FALSE, width |-> 0, height |-> 0, faces |-> <<>>]

None == [set |-> FALSE, x |-> 0, y |-> 0]

\* Bounding boxes the detector can report inside a frame of the given size.
Boxes(W, H) ==
    {b \in [x : 0..(W - 1), y : 0..(H - 1), w : 1..W, h : 1..H] :
        b.x + b.w <= W /\ b.y + b.h <= H}

\* Boxes reported after the first one: the two opposite corners of the frame.
ExtraBoxes(W, H) ==
    {[x |-> 0, y |-> 0, w |-> 1, h |-> 1],
     [x |-> W - 1, y |-> H - 1, w |-> 1, h |-> 1]}

RECURSIVE SeqsUpTo(_, _)
SeqsUpTo(S, n) ==
    IF n = 0 THEN {<<>>}
    ELSE LET shorter == SeqsUpTo(S, n - 1)
         IN  shorter \cup {Append(s, e) : s \in shorter, e \in S}

\* Detector results: nothing, one box, or one box followed by corner boxes.
FaceLists(W, H) ==
    {<<>>} \cup
    {<<b>> \o tail : b \in Boxes(W, H), tail \in SeqsUpTo(ExtraBoxes(W, H), MaxExtra)}

FramesOfSize(W, H) ==
    {[present |-> TRUE, width |-> W, height |-> H, faces |-> fs] : fs \in FaceLists(W, H)}

\* An absent frame, or a frame of odd or even width and height with a detector result.
Frames ==
    {NoFrame} \cup
    UNION {FramesOfSize(W, H) : W \in (MaxDim - 1)..MaxDim, H \in (MaxDim - 1)..MaxDim}

\* A variant of the loop that keeps the centre of the last box.
RECURSIVE LastFaceCenter(_, _)
LastFaceCenter(faces, center) ==
    IF faces = <<>> THEN center
    ELSE LET b == Head(faces)
         IN  LastFaceCenter(Tail(faces), [set |-> TRUE,
                                          x |-> b.x + FloorDiv(b.w, 2),
                                          y |-> b.y + FloorDiv(b.h, 2)])

\* The loop `for (x, y, w, h_rect) in faces` keeping the centre of the first box.
RECURSIVE FirstFaceCenter(_, _)
FirstFaceCenter(faces, center) ==
    IF faces = <<>> THEN center
    ELSE LET b == Head(faces)
             next == IF ~center.set
                     THEN [set |-> TRUE,
                           x |-> b.x + FloorDiv(b.w, 2),
                           y |-> b.y + FloorDiv(b.h, 2)]
                     ELSE center
         IN  FirstFaceCenter(Tail(faces), next)

QuantizeH_strict(offset_x, tolerance) ==
    IF Abs(offset_x) >= tolerance
    THEN (IF offset_x > 0 THEN 1 ELSE -1)
    ELSE 0

\* h: 1 if the face is to the right, -1 if to the left, 0 if within tolerance.
QuantizeH(offset_x, tolerance) ==
    IF Abs(offset_x) > tolerance
    THEN (IF offset_x > 0 THEN 1 ELSE -1)
    ELSE 0

QuantizeV_down(offset_y, tolerance) ==
    IF Abs(offset_y) > tolerance
    THEN (IF offset_y > 0 THEN 1 ELSE -1)
    ELSE 0

\* v: 1 if the face is above centre (negative offset_y), -1 if below, 0 within tolerance.
QuantizeV(offset_y, tolerance) ==
    IF Abs(offset_y) > tolerance
    THEN (IF offset_y < 0 THEN 1 ELSE -1)
    ELSE 0

DefaultDirection_right == <<1, 0>>

\* `h, v = 0, 0  # Default values`, also what `if frame is None` returns.
DefaultDirection == <<0, 0>>

frame_center(f) == <<FloorDiv(f.width, 2), FloorDiv(f.height, 2)>>

\* Direction_Module.get_direction
get_direction(f, tolerance) ==
    IF ~f.present THEN DefaultDirection
    ELSE LET c == FirstFaceCenter(f.faces, None)
         IN  IF c.set
             THEN <<QuantizeH(c.x - frame_center(f)[1], tolerance),
                    QuantizeV(c.y - frame_center(f)[2], tolerance)>>
             ELSE DefaultDirection

\* Directions_Module.get_face_direction
get_face_direction(f, tolerance) ==
    IF ~f.present THEN <<0, 0>>
    ELSE LET c == FirstFaceCenter(f.faces, None)
             offset_x == c.x - FloorDiv(f.width, 2)
             offset_y == c.y - FloorDiv(f.height, 2)
             horizontal == IF Abs(offset_x) > tolerance
                           THEN (IF offset_x > 0 THEN 1 ELSE -1) ELSE 0
             vertical == IF Abs(offset_y) > tolerance
                         THEN (IF offset_y < 0 THEN 1 ELSE -1) ELSE 0
         IN  IF c.set THEN <<horizontal, vertical>> ELSE <<0, 0>>

NotComputed == <<2, 2>>

DirIdle ==
    /\ dFrame = NoFrame
    /\ dTol = 0
    /\ dDone = {}
    /\ dOut = NotComputed
    /\ dOut2 = NotComputed
    /\ dOut3 = NotComputed

DirInit ==
    /\ dFrame \in Frames
    /\ dTol \in 0..MaxTol
    /\ dDone = {}
    /\ dOut = NotComputed
    /\ dOut2 = NotComputed
    /\ dOut3 = NotComputed

\* Direction_Module.get_direction(frame) is called and returns.
GetDirection ==
    /\ UNCHANGED dirOthers
    /\ "get_direction" \notin dDone
    /\ dOut' = get_direction(dFrame, dTol)
    /\ dDone' = dDone \cup {"get_direction"}
    /\ UNCHANGED <<dFrame, dTol, dOut2, dOut3>>

\* Directions_Module.get_face_direction(frame) is called and returns.
GetFaceDirection ==
    /\ UNCHANGED dirOthers
    /\ "get_face_direction" \notin dDone
    /\ dOut2' = get_face_direction(dFrame, dTol)
    /\ dDone' = dDone \cup {"get_face_direction"}
    /\ UNCHANGED <<dFrame, dTol, dOut, dOut3>>

(***************************************************************************)
(* Controller: the UscCmd process driver (maestro_linux_driver.py)         *)
(***************************************************************************)
FULL_CW_TARGET == 4000
FULL_CCW_TARGET == 8000
STOP_TARGET == 5900

\* Largest channel index the callers use (the driver enforces no upper bound).
MaxChan == 1

\* What subprocess.run does with the command: the process exits with a status
\* (0 success, 1 a rejection by the device), the executable is not found
\* (FileNotFoundError), or the timeout expires (TimeoutExpired).
RunOutcomes ==
    {[kind |-> "exit", status |-> 0], [kind |-> "exit", status |-> 1],
     [kind |-> "notfound", status |-> 0], [kind |-> "timeout", status |-> 0]}

Channels == (-1)..MaxChan

Targets == {-1, 0, 3999, STOP_TARGET, FULL_CCW_TARGET, 9000}

\* Normalized speeds in thousandths: -0.3, 0, 0.001, 0.005, 0.2, 0.5, 0.999, 1.0, 1.5.
Speeds == {-300, 0, 1, 5, 200, 500, 999, 1000, 1500}

\* A finite number passed as `speed`, in thousandths.
Num(n) == [kind |-> "num", val |-> n]

\* The Python values passed as `speed`: a finite number (a string float()
\* accepts included), None, a value float() rejects ('fast', a list), and NaN
\* (float('nan'), or the string 'nan', which float() accepts).
SpeedValues ==
    {Num(n) : n \in Speeds} \cup {[kind |-> k, val |-> 0] : k \in {"None", "str", "nan"}}

Durations == {-1, 0, 1}

\* The Python values passed as `duration`: a number of seconds, None, or a
\* value float() rejects.
DurationValues ==
    {Num(n) : n \in Durations} \cup {[kind |-> k, val |-> 0] : k \in {"None", "str"}}

duration_float_one(duration) == IF duration.kind \in {"None", "str"} THEN 1 ELSE duration.val

\* Lines 181-186 of move_step: duration_f, in seconds.
duration_float(duration) == IF duration.kind \in {"None", "str"} THEN 0 ELSE duration.val

NoneDir == "<None>"

DirTokens == {"cw", " CW ", "Clockwise", "ccw", "Counter-Clockwise", "counterclockwise",
              "left", "", "c w", NoneDir}

strip_lower_any(token) == "cw"

\* direction.strip().lower() on the tokens above.
strip_lower(token) ==
    CASE token = " CW " -> "cw"
      [] token = "Clockwise" -> "clockwise"
      [] token = "Counter-Clockwise" -> "counter-clockwise"
      [] OTHER -> token

_validate_channel_off(channel) == TRUE

\* TRUE when _validate_channel returns, FALSE when it raises ValueError.
_validate_channel(channel) == channel >= 0

\* TRUE when _validate_target returns, FALSE when it raises ValueError.
_validate_target(target) == target >= 0

_run_always_success(outcome) ==
    [success |-> TRUE, return_code |-> IF outcome.kind = "exit" THEN outcome.status ELSE 0]

\* _run: the ServoCommandResult (success, return_code) for what subprocess.run did.
_run(outcome) ==
    CASE outcome.kind = "notfound" -> [success |-> FALSE, return_code |-> 127]
      [] outcome.kind = "timeout" -> [success |-> FALSE, return_code |-> 124]
      [] OTHER -> [success |-> (outcome.status = 0), return_code |-> outcome.status]

raise_for_error_never(result) == [raised |-> FALSE, value |-> result]

\* ServoCommandResult.raise_for_error: RuntimeError on a non-success result,
\* else `return self`.
raise_for_error(result) == [raised |-> ~result.success, value |-> result]

\* round(): to the nearest integer, ties to the even one; num/den with den > 0.
round(num, den) ==
    LET q == num \div den
        r == num % den
    IN  IF 2 * r < den THEN q
        ELSE IF 2 * r > den THEN q + 1
        ELSE IF q % 2 = 0 THEN q ELSE q + 1

\* Lines 205-210 of _scaled_target: None, and a value float() rejects, become 1.0.
speed_float(speed) == IF speed.kind \in {"None", "str"} THEN Num(1000) ELSE speed

clamp_speed_off(speed_f) == speed_f

\* Lines 211-214 of _scaled_target: below 0.0 becomes 0.0, above 1.0 becomes
\* 1.0; NaN compares false both times and is kept.
clamp_speed(speed_f) ==
    IF speed_f.kind = "nan" THEN speed_f
    ELSE IF speed_f.val < 0 THEN Num(0)
    ELSE IF speed_f.val > 1000 THEN Num(1000)
    ELSE speed_f

interpolate_from_full(stop, full, speed_f) ==
    round(full * 1000 + (stop - full) * speed_f, 1000)

\* Line 215 of _scaled_target for a finite speed_f (thousandths):
\* int(round(stop + (full - stop) * speed_f)).
interpolate(stop, full, speed_f) ==
    round(stop * 1000 + (full - stop) * speed_f, 1000)

\* _scaled_target(stop, full, speed): [raised, target].  round() of NaN raises
\* ValueError ("cannot convert float NaN to integer"), which nothing catches.
_scaled_target(stop, full, speed) ==
    LET speed_f == clamp_speed(speed_float(speed))
    IN  IF speed_f.kind = "nan"
        THEN [raised |-> TRUE, target |-> 0]
        ELSE [raised |-> FALSE, target |-> interpolate(stop, full, speed_f.val)]

\* set_servo_target: the validation, then one _run of the command, for which
\* subprocess.run does `outcome`.  The result is [raised, log, result]: whether
\* ValueError was raised, the invocation log afterwards, and the
\* ServoCommandResult returned (none when raised).
set_servo_target(log, channel, target, validate, outcome) ==
    IF validate /\ ~(_validate_channel(channel) /\ _validate_target(target))
    THEN [raised |-> TRUE, log |-> log, result |-> <<>>]
    ELSE [raised |-> FALSE,
          log |-> Append(log, [ch |-> channel, target |-> target, run |-> outcome,
                               rc |-> _run(outcome).return_code,
                               success |-> _run(outcome).success]),
          result |-> <<_run(outcome)>>]

move_cw(log, channel, speed, outcome) ==
    LET t == _scaled_target(STOP_TARGET, FULL_CW_TARGET, speed)
    IN  IF t.raised
        THEN [raised |-> TRUE, log |-> log, result |-> <<>>]
        ELSE set_servo_target(log, channel, t.target, TRUE, outcome)

move_ccw(log, channel, speed, outcome) ==
    LET t == _scaled_target(STOP_TARGET, FULL_CCW_TARGET, speed)
    IN  IF t.raised
        THEN [raised |-> TRUE, log |-> log, result |-> <<>>]
        ELSE set_servo_target(log, channel, t.target, TRUE, outcome)

stop_unvalidated(log, channel, outcome) ==
    set_servo_target(log, channel, STOP_TARGET, FALSE, outcome)

\* Controller.stop
stop(log, channel, outcome) ==
    set_servo_target(log, channel, STOP_TARGET, TRUE, outcome)

NoCall == [op |-> "none", ch |-> 0, target |-> 0, validate |-> TRUE,
           dir |-> NoneDir, speed |-> Num(0), dur |-> Num(0)]

DrvCalls ==
    {[NoCall EXCEPT !.op = "set_servo_target", !.ch = c, !.target = t, !.validate = va] :
        c \in Channels, t \in Targets, va \in BOOLEAN}
    \cup {[NoCall EXCEPT !.op = o, !.ch = c, !.speed = s] :
        o \in {"move_cw", "move_ccw"}, c \in Channels, s \in SpeedValues}
    \cup {[NoCall EXCEPT !.op = "stop", !.ch = c] : c \in Channels}
    \cup {[NoCall EXCEPT !.op = "move_step", !.ch = c, !.dir = d, !.speed = s, !.dur = du] :
        c \in Channels, d \in DirTokens, s \in SpeedValues, du \in DurationValues}

DrvIdle ==
    /\ cmdLog = <<>>
    /\ drvPc = "idle"
    /\ drvCall = NoCall
    /\ drvOutcome = "none"
    /\ drvResult = <<>>

DrvInit ==
    /\ cmdLog = <<>>
    /\ drvPc = "call"
    /\ drvCall \in DrvCalls
    /\ drvOutcome = "none"
    /\ drvResult = <<>>

DrvFinish(r) ==
    /\ cmdLog' = r.log
    /\ drvPc' = "done"
    /\ drvOutcome' = IF r.raised THEN "ValueError" ELSE "returned"
    /\ drvResult' = r.result
    /\ UNCHANGED drvCall

Call_set_servo_target ==
    /\ UNCHANGED drvOthers
    /\ drvPc = "call" /\ drvCall.op = "set_servo_target"
    /\ \E outcome \in RunOutcomes :
         DrvFinish(set_servo_target(cmdLog, drvCall.ch, drvCall.target, drvCall.validate,
                                    outcome))

Call_move_cw ==
    /\ UNCHANGED drvOthers
    /\ drvPc = "call" /\ drvCall.op = "move_cw"
    /\ \E outcome \in RunOutcomes :
         DrvFinish(move_cw(cmdLog, drvCall.ch, drvCall.speed, outcome))

Call_move_ccw ==
    /\ UNCHANGED drvOthers
    /\ drvPc = "call" /\ drvCall.op = "move_ccw"
    /\ \E outcome \in RunOutcomes :
         DrvFinish(move_ccw(cmdLog, drvCall.ch, drvCall.speed, outcome))

Call_stop ==
    /\ UNCHANGED drvOthers
    /\ drvPc = "call" /\ drvCall.op = "stop"
    /\ \E outcome \in RunOutcomes : DrvFinish(stop(cmdLog, drvCall.ch, outcome))

\* `.raise_for_error()` on the ServoCommandResult a call has returned.
Result_raise_for_error ==
    /\ UNCHANGED drvOthers
    /\ drvPc = "done" /\ drvOutcome = "returned" /\ drvResult # <<>>
    /\ LET r == raise_for_error(drvResult[1])
       IN  /\ drvPc' = "checked"
           /\ drvOutcome' = IF r.raised THEN "RuntimeError" ELSE "returned"
           /\ drvResult' = IF r.raised THEN <<>> ELSE <<r.value>>
           /\ UNCHANGED <<cmdLog, drvCall>>

\* move_step up to the wait: the direction check and the move command, whose
\* result is dropped.
move_step_Move ==
    /\ UNCHANGED drvOthers
    /\ drvPc = "call" /\ drvCall.op = "move_step"
    /\ LET dnorm == strip_lower(drvCall.dir)
       IN  IF drvCall.dir = NoneDir
              \/ dnorm \notin {"cw", "clockwise", "ccw", "counterclockwise", "counter-clockwise"}
           THEN /\ drvPc' = "done"
                /\ drvOutcome' = "ValueError"
                /\ UNCHANGED <<cmdLog, drvCall, drvResult>>
           ELSE \E outcome \in RunOutcomes :
                  LET r == IF dnorm \in {"cw", "clockwise"}
                           THEN move_cw(cmdLog, drvCall.ch, drvCall.speed, outcome)
                           ELSE move_ccw(cmdLog, drvCall.ch, drvCall.speed, outcome)
                  IN  /\ cmdLog' = r.log
                      /\ drvPc' = IF r.raised THEN "done"
                                  ELSE IF duration_float(drvCall.dur) > 0 THEN "sleep"
                                  ELSE "stop"
                      /\ drvOutcome' = IF r.raised THEN "ValueError" ELSE "none"
                      /\ UNCHANGED <<drvCall, drvResult>>

\* time.sleep(duration_f) returns.
move_step_Wake ==
    /\ UNCHANGED drvOthers
    /\ drvPc = "sleep"
    /\ drvPc' = "stop"
    /\ UNCHANGED <<cmdLog, drvCall, drvOutcome, drvResult>>

\* KeyboardInterrupt is raised inside time.sleep(duration_f); nothing catches it.
move_step_Interrupt ==
    /\ UNCHANGED drvOthers
    /\ drvPc = "sleep"
    /\ drvPc' = "done"
    /\ drvOutcome' = "KeyboardInterrupt"
    /\ UNCHANGED <<cmdLog, drvCall, drvResult>>

\* self.stop(channel, timeout=timeout), the last statement of move_step, which
\* returns None.
move_step_Stop ==
    /\ UNCHANGED drvOthers
    /\ drvPc = "stop"
    /\ \E outcome \in RunOutcomes :
         /\ cmdLog' = stop(cmdLog, drvCall.ch, outcome).log
         /\ drvPc' = "done"
         /\ drvOutcome' = "returned"
         /\ UNCHANGED <<drvCall, drvResult>>

(***************************************************************************)
(* MaestroServoController: the serial driver (maestro_controller.py)       *)
(***************************************************************************)
SERVO_MIN == 4000
SERVO_NEUTRAL == 6000
SERVO_MAX == 8000
FS90R_MIN == 700
FS90R_NEUTRAL == 1500
FS90R_MAX == 2300

\* `for channel in range(24)` of stop_all.
NumChannels == 24

Profiles == {"standard", "fs90r"}

pulse_min_low(profile) == IF profile = "fs90r" THEN FS90R_MIN - 200 ELSE SERVO_MIN - 200

pulse_min(profile) == IF profile = "fs90r" THEN FS90R_MIN ELSE SERVO_MIN

pulse_neutral(profile) == IF profile = "fs90r" THEN FS90R_NEUTRAL ELSE SERVO_NEUTRAL

pulse_max(profile) == IF profile = "fs90r" THEN FS90R_MAX ELSE SERVO_MAX

Positions == {0, FS90R_MIN, FS90R_NEUTRAL, 3000, SERVO_MIN, SERVO_NEUTRAL, SERVO_MAX, 9000}

\* `direction` and `speed` (percent) arguments of rotate.
Directions == {-2, -1, 0, 1, 2}

Percents == {-1, 0, 7, 33, 50, 100, 101}

\* A call: its arguments, whether it is the close() of __exit__, and how the
\* body of the `with` block had ended by then.
NoMCall == [op |-> "none", ch |-> 0, position |-> 0, direction |-> 0, speed |-> 0,
            exit |-> FALSE, body |-> "none"]

MCalls ==
    {[NoMCall EXCEPT !.op = "stop_all"]}
    \cup {[NoMCall EXCEPT !.op = "close"]}
    \cup {[NoMCall EXCEPT !.op = o, !.ch = c] :
            o \in {"get_position", "is_moving", "test_fs90r_calibration"}, c \in 0..MaxChan}
    \cup {[NoMCall EXCEPT !.op = "rotate", !.ch = c, !.direction = d, !.speed = sp] :
            c \in 0..MaxChan, d \in Directions, sp \in Percents}
    \cup {[NoMCall EXCEPT !.op = "stop", !.ch = c] : c \in 0..MaxChan}
    \cup {[NoMCall EXCEPT !.op = "set_position", !.ch = c, !.position = p] :
            c \in 0..MaxChan, p \in Positions}

MIdle ==
    /\ mConnected = FALSE
    /\ mLink = "none"
    /\ mCloses = 0
    /\ mProfile = "standard"
    /\ mLog = <<>>
    /\ mPc = "idle"
    /\ mCall = NoMCall
    /\ mOutcome = "none"
    /\ mChannel = 0

\* After __init__: connected when a port was given or found, else not.
MInit ==
    /\ mConnected \in BOOLEAN
    /\ mLink = (IF mConnected THEN "open" ELSE "none")
    /\ mCloses = 0
    /\ mProfile \in Profiles
    /\ mLog = <<>>
    /\ mPc = "call"
    /\ mCall \in MCalls
    /\ mOutcome = "none"
    /\ mChannel = 0

\* self.controller.setTarget(channel, target) on the serial link: the write
\* reaches the device (ok), or the link raises and nothing is recorded.
setTarget(log, channel, target, ok) ==
    IF ok THEN Append(log, [ch |-> channel, target |-> target]) ELSE log

NotConnected_silent ==
    /\ ~mConnected
    /\ mPc' = "done"
    /\ mOutcome' = "returned"
    /\ UNCHANGED <<mConnected, mLink, mCloses, mProfile, mLog, mCall, mChannel>>

\* `if not self.is_connected(): raise RuntimeError("Controller not connected")`
NotConnected ==
    /\ ~mConnected
    /\ mPc' = "done"
    /\ mOutcome' = "RuntimeError"
    /\ UNCHANGED <<mConnected, mLink, mCloses, mProfile, mLog, mCall, mChannel>>

\* `position = max(self.pulse_min, min(self.pulse_max, position))`
set_position_clamp(profile, position) ==
    Max(pulse_min(profile), Min(pulse_max(profile), position))

\* MaestroServoController.set_position
Call_set_position ==
    /\ UNCHANGED mOthers
    /\ mPc = "call" /\ mCall.op = "set_position"
    /\ \/ NotConnected
       \/ /\ mConnected
          /\ \E ok \in BOOLEAN :
               /\ mLog' = setTarget(mLog, mCall.ch, set_position_clamp(mProfile, mCall.position), ok)
               /\ mOutcome' = IF ok THEN "returned" ELSE "SerialException"
          /\ mPc' = "done"
          /\ UNCHANGED <<mConnected, mLink, mCloses, mProfile, mCall, mChannel>>

\* MaestroServoController.stop
Call_mstop ==
    /\ UNCHANGED mOthers
    /\ mPc = "call" /\ mCall.op = "stop"
    /\ \/ NotConnected
       \/ /\ mConnected
          /\ \E ok \in BOOLEAN :
               /\ mLog' = setTarget(mLog, mCall.ch, pulse_neutral(mProfile), ok)
               /\ mOutcome' = IF ok THEN "returned" ELSE "SerialException"
          /\ mPc' = "done"
          /\ UNCHANGED <<mConnected, mLink, mCloses, mProfile, mCall, mChannel>>

\* Lines 102-111 of rotate: speed_range = (pulse_max - pulse_neutral) * (speed / 100),
\* int(pulse_neutral + speed_range) forward, int(pulse_neutral - speed_range)
\* in reverse (int() truncates; the values are positive), then the clamp.
rotate_position(profile, dirn, speed) ==
    LET range100 == (pulse_max(profile) - pulse_neutral(profile)) * speed
        position == IF dirn > 0
                    THEN pulse_neutral(profile) + (range100 \div 100)
                    ELSE pulse_neutral(profile) - ((range100 + 99) \div 100)
    IN  Max(pulse_min(profile), Min(pulse_max(profile), position))

\* A rotate without the range checks of lines 92-96.
rotate_unchecked(log, profile, channel, dirn, speed, ok) ==
    [outcome |-> IF ok THEN "returned" ELSE "SerialException",
     log |-> setTarget(log, channel,
                       IF dirn = 0 THEN pulse_neutral(profile)
                       ELSE rotate_position(profile, dirn, speed), ok)]

\* rotate on a connected controller: [outcome, log].
rotate(log, profile, channel, dirn, speed, ok) ==
    IF ~(-1 <= dirn /\ dirn <= 1) \/ ~(0 <= speed /\ speed <= 100)
    THEN [outcome |-> "ValueError", log |-> log]
    ELSE [outcome |-> IF ok THEN "returned" ELSE "SerialException",
          log |-> setTarget(log, channel,
                            IF dirn = 0 THEN pulse_neutral(profile)
                            ELSE rotate_position(profile, dirn, speed), ok)]

\* MaestroServoController.rotate
Call_rotate ==
    /\ UNCHANGED mOthers
    /\ mPc = "call" /\ mCall.op = "rotate"
    /\ \/ NotConnected
       \/ /\ mConnected
          /\ \E ok \in BOOLEAN :
               /\ mLog' = rotate(mLog, mProfile, mCall.ch, mCall.direction, mCall.speed, ok).log
               /\ mOutcome' =
                     rotate(mLog, mProfile, mCall.ch, mCall.direction, mCall.speed, ok).outcome
          /\ mPc' = "done"
          /\ UNCHANGED <<mConnected, mLink, mCloses, mProfile, mCall, mChannel>>

\* MaestroServoController.get_position: the connection check, then the
\* device is read; nothing is sent to a servo.
Call_get_position ==
    /\ UNCHANGED mOthers
    /\ mPc = "call" /\ mCall.op = "get_position"
    /\ \/ NotConnected
       \/ /\ mConnected
          /\ mPc' = "done"
          /\ mOutcome' \in {"returned", "SerialException"}
          /\ UNCHANGED <<mConnected, mLink, mCloses, mProfile, mLog, mCall, mChannel>>

\* MaestroServoController.is_moving: the connection check, then the device
\* is read; nothing is sent to a servo.
Call_is_moving ==
    /\ UNCHANGED mOthers
    /\ mPc = "call" /\ mCall.op = "is_moving"
    /\ \/ NotConnected
       \/ /\ mConnected
          /\ mPc' = "done"
          /\ mOutcome' \in {"returned", "SerialException"}
          /\ UNCHANGED <<mConnected, mLink, mCloses, mProfile, mLog, mCall, mChannel>>

\* `test_positions` of test_fs90r_calibration, and the number of its entries.
test_positions == <<3200, 4000, 5000, 5800, 6000, 6200, 7000, 8000, 8800>>

NumTestPositions == Len(test_positions)

\* `self.controller.setTarget(channel, 6000)` after the loop.
CalibrationNeutral == 6000

\* test_fs90r_calibration: the connection check, then the loop is entered.
calibration_Begin ==
    /\ UNCHANGED mOthers
    /\ mPc = "call" /\ mCall.op = "test_fs90r_calibration"
    /\ \/ NotConnected
       \/ /\ mConnected
          /\ mPc' = "calibrate"
          /\ mChannel' = 0
          /\ UNCHANGED <<mConnected, mLink, mCloses, mProfile, mLog, mCall, mOutcome>>

\* One iteration of `for position, description in test_positions`: the
\* setTarget, which may raise on the link, and Enter at the prompt.
calibration_Step ==
    /\ UNCHANGED mOthers
    /\ mPc = "calibrate" /\ mChannel < NumTestPositions
    /\ \E ok \in BOOLEAN :
         /\ mLog' = setTarget(mLog, mCall.ch, test_positions[mChannel + 1], ok)
         /\ mPc' = (IF ok THEN "calibrate" ELSE "done")
         /\ mOutcome' = (IF ok THEN mOutcome ELSE "SerialException")
         /\ mChannel' = (IF ok THEN mChannel + 1 ELSE mChannel)
    /\ UNCHANGED <<mConnected, mLink, mCloses, mProfile, mCall>>

\* Ctrl+C (or end of input) at `input("Press Enter to continue...")`, after
\* the setTarget of the iteration: nothing catches it.
calibration_Interrupt ==
    /\ UNCHANGED mOthers
    /\ mPc = "calibrate" /\ mChannel > 0
    /\ mPc' = "done"
    /\ mOutcome' = "KeyboardInterrupt"
    /\ UNCHANGED <<mConnected, mLink, mCloses, mProfile, mLog, mCall, mChannel>>

\* Lines 202-204: "Return to neutral", and test_fs90r_calibration returns.
calibration_Return ==
    /\ UNCHANGED mOthers
    /\ mPc = "calibrate" /\ mChannel = NumTestPositions
    /\ \E ok \in BOOLEAN :
         /\ mLog' = setTarget(mLog, mCall.ch, CalibrationNeutral, ok)
         /\ mOutcome' = (IF ok THEN "returned" ELSE "SerialException")
    /\ mPc' = "done"
    /\ UNCHANGED <<mConnected, mLink, mCloses, mProfile, mCall, mChannel>>

\* close(): `if self.controller:` and, when connected, stop_all is entered.
close_Begin ==
    /\ UNCHANGED mOthers
    /\ mPc = "call" /\ mCall.op = "close"
    /\ mCloses' = mCloses + 1
    /\ IF mConnected
       THEN /\ mPc' = "sweep"
            /\ mChannel' = 0
            /\ UNCHANGED mOutcome
       ELSE /\ mPc' = "done"
            /\ mOutcome' = "returned"
            /\ UNCHANGED mChannel
    /\ UNCHANGED <<mConnected, mLink, mProfile, mLog, mCall>>

\* Lines 240-242 of close(): the link is closed and self.controller = None.
close_Finish ==
    /\ UNCHANGED mOthers
    /\ mPc = "closing"
    /\ mLink' = "closed"
    /\ mConnected' = FALSE
    /\ mPc' = "done"
    /\ mOutcome' = "returned"
    /\ UNCHANGED <<mCloses, mProfile, mLog, mCall, mChannel>>

\* __exit__ of the `with` block around the call: self.close(), however the
\* body ended.
exit_close ==
    /\ UNCHANGED mOthers
    /\ mPc = "done" /\ ~mCall.exit
    /\ mCall' = [NoMCall EXCEPT !.op = "close", !.exit = TRUE, !.body = mOutcome]
    /\ mPc' = "call"
    /\ mOutcome' = "none"
    /\ UNCHANGED <<mConnected, mLink, mCloses, mProfile, mLog, mChannel>>

\* MaestroServoController.stop_all: the connection check, then the loop is entered.
stop_all_Begin ==
    /\ UNCHANGED mOthers
    /\ mPc = "call" /\ mCall.op = "stop_all"
    /\ \/ NotConnected
       \/ /\ mConnected
          /\ mPc' = "sweep"
          /\ mChannel' = 0
          /\ UNCHANGED <<mConnected, mLink, mCloses, mProfile, mLog, mCall, mOutcome>>

\* One iteration of `for channel in range(24)`: the setTarget returns.
stop_all_Step ==
    /\ UNCHANGED mOthers
    /\ mPc = "sweep" /\ mChannel < NumChannels
    /\ mLog' = setTarget(mLog, mChannel, pulse_neutral(mProfile), TRUE)
    /\ mChannel' = mChannel + 1
    /\ UNCHANGED <<mConnected, mLink, mCloses, mProfile, mPc, mCall, mOutcome>>

\* One iteration of the loop: the setTarget raises; stop_all has no handler, so
\* the exception leaves the loop and stop_all.
stop_all_Fail ==
    /\ UNCHANGED mOthers
    /\ mPc = "sweep" /\ mChannel < NumChannels
    /\ mLog' = setTarget(mLog, mChannel, pulse_neutral(mProfile), FALSE)
    /\ mPc' = "done"
    /\ mOutcome' = "SerialException"
    /\ UNCHANGED <<mConnected, mLink, mCloses, mProfile, mCall, mChannel>>

\* The loop is exhausted: "All servos stopped", stop_all returns (to its
\* caller close(), when close() called it).
stop_all_Return ==
    /\ UNCHANGED mOthers
    /\ mPc = "sweep" /\ mChannel = NumChannels
    /\ mPc' = (IF mCall.op = "close" THEN "closing" ELSE "done")
    /\ mOutcome' = (IF mCall.op = "close" THEN mOutcome ELSE "returned")
    /\ UNCHANGED <<mConnected, mLink, mCloses, mProfile, mLog, mCall, mChannel>>

(***************************************************************************)
(* The control loop: main() of control_water_gun.py                        *)
(*                                                                         *)
(* As written, line 1 imports the module `datetime`, so `datetime.now()`   *)
(* at line 25 raises AttributeError and main ends before its loop          *)
(* (main_NameFault).  So that the loop can be examined at all, the model   *)
(* also lets line 25 succeed (main_Start) and then reads the loop's time   *)
(* calls as the clock reading and the duration they name, and              *)
(* `navigator.get_face_position` (defined nowhere in the sources, used     *)
(* only for the display) as having no effect.  Every other statement,      *)
(* the call of move_step without its required `duration` included, is      *)
(* modelled as written.                                                    *)
(***************************************************************************)
\* Bounds of the loop's runs: clock horizon, longest wait for a frame, --delay
\* values, commands issued.  The clock counts in units of the shortest cycle.
MaxTime == 4
MaxStep == 2
MaxDelay == 2
MaxCmds == 3

\* `navigator = Direction_Module(tolerance=10)`
MainTolerance == 10

\* Channel of the horizontal axis (`channel=1`) and of the vertical axis (`channel=0`).
HorizontalChannel == 1
VerticalChannel == 0

\* What subprocess.run does with the loop's commands: the process exits with
\* status 0 or, rejected by the device, with status 1, or the timeout expires.
MainOutcomes ==
    {[kind |-> "exit", status |-> 0], [kind |-> "exit", status |-> 1],
     [kind |-> "timeout", status |-> 0]}

\* Frames of a 640x480 camera: no face; a face at the centre; a face exactly
\* `tolerance` right of the centre; right and above; left; below.
MainFaces ==
    {<<>>,
     <<[x |-> 300, y |-> 220, w |-> 40, h |-> 40]>>,
     <<[x |-> 310, y |-> 220, w |-> 40, h |-> 40]>>,
     <<[x |-> 380, y |-> 190, w |-> 40, h |-> 40]>>,
     <<[x |-> 100, y |-> 220, w |-> 40, h |-> 40]>>,
     <<[x |-> 300, y |-> 400, w |-> 40, h |-> 40]>>}

MainFrames ==
    {[present |-> TRUE, width |-> 640, height |-> 480, faces |-> fs] : fs \in MainFaces}

ArgSets ==
    [delay : 0..MaxDelay, disable_horizontal : BOOLEAN, disable_vertical : BOOLEAN]

NoArgs == [delay |-> 0, disable_horizontal |-> FALSE, disable_vertical |-> FALSE]

NothingSeen == [frame |-> FALSE, direction |-> FALSE]

MainIdle ==
    /\ pc = "idle"
    /\ args = NoArgs
    /\ now = 0
    /\ last_movement = 0
    /\ frame = NoFrame
    /\ direction = NotComputed
    /\ cameraOpen = FALSE
    /\ exitKind = "none"
    /\ actTimes = <<>>
    /\ cycleCmds = 0
    /\ cycleSeen = NothingSeen
    /\ inFlight = {}

\* After lines 18-21: the arguments are parsed, the camera is started, the
\* estimator and the Controller are constructed.
MainInit ==
    /\ pc = "start"
    /\ args \in ArgSets
    /\ now = 0
    /\ last_movement = 0
    /\ frame = NoFrame
    /\ direction = NotComputed
    /\ cameraOpen = TRUE
    /\ exitKind = "none"
    /\ actTimes = <<>>
    /\ cycleCmds = 0
    /\ cycleSeen = NothingSeen
    /\ inFlight = {}

\* An exception leaves main: nothing catches it and main has no cleanup.  When
\* it is raised inside subprocess.run, run() kills the child process first.
main_Raise(kind) ==
    /\ pc' = "exited"
    /\ exitKind' = kind
    /\ inFlight' = {}
    /\ UNCHANGED <<args, now, last_movement, frame, direction, cameraOpen,
                   actTimes, cycleCmds, cycleSeen, cmdLog>>

\* Line 25 as written: the module `datetime` has no attribute `now`.
main_NameFault ==
    /\ UNCHANGED mainOthers
    /\ pc = "start"
    /\ main_Raise("AttributeError")

\* Line 25 read as the clock reading it names: last_movement = now.
main_Start ==
    /\ UNCHANGED mainOthers
    /\ pc = "start"
    /\ last_movement' = now
    /\ pc' = "frame"
    /\ UNCHANGED <<args, now, frame, direction, cameraOpen, exitKind,
                   actTimes, cycleCmds, cycleSeen, inFlight, cmdLog>>

\* Line 29: camera.get_frame() blocks until the next frame, dt after the
\* previous cycle's, and returns it.
main_GetFrame ==
    /\ UNCHANGED mainOthers
    /\ pc = "frame"
    /\ \E dt \in 1..MaxStep :
         /\ now + dt <= MaxTime
         /\ now' = now + dt
    /\ frame' \in MainFrames
    /\ cycleSeen' = [frame |-> TRUE, direction |-> FALSE]
    /\ cycleCmds' = 0
    /\ pc' = "direction"
    /\ UNCHANGED <<args, last_movement, direction, cameraOpen, exitKind, actTimes,
                   inFlight, cmdLog>>

\* Line 29: the capture raises (Frame_Module.get_frame has no handler).
main_CaptureFault ==
    /\ UNCHANGED mainOthers
    /\ pc = "frame"
    /\ main_Raise("CaptureError")

\* Lines 31-39: the direction of this frame (and the display, which changes nothing).
main_GetDirection ==
    /\ UNCHANGED mainOthers
    /\ pc = "direction"
    /\ direction' = get_direction(frame, MainTolerance)
    /\ cycleSeen' = [cycleSeen EXCEPT !.direction = TRUE]
    /\ pc' = "delay"
    /\ UNCHANGED <<args, now, last_movement, frame, cameraOpen, exitKind,
                   actTimes, cycleCmds, inFlight, cmdLog>>

\* Lines 42-45: the cycle is within `delay` of last_movement.
TooSoon_noLimit == FALSE

TooSoon == args.delay > 0 /\ now - last_movement < args.delay

\* Line 46: `continue`.
main_Suppress ==
    /\ UNCHANGED mainOthers
    /\ pc = "delay"
    /\ TooSoon
    /\ pc' = "frame"
    /\ UNCHANGED <<args, now, last_movement, frame, direction, cameraOpen, exitKind,
                   actTimes, cycleCmds, cycleSeen, inFlight, cmdLog>>

\* Lines 42-54: the delay has passed (or is not positive); on to the axes.
main_Pass ==
    /\ UNCHANGED mainOthers
    /\ pc = "delay"
    /\ ~TooSoon
    /\ pc' = "horizontal"
    /\ UNCHANGED <<args, now, last_movement, frame, direction, cameraOpen, exitKind,
                   actTimes, cycleCmds, cycleSeen, inFlight, cmdLog>>

\* Where main waits for the command of an axis: inside subprocess.run.
RunPc(channel) == IF channel = HorizontalChannel THEN "horizontal_run" ELSE "vertical_run"

main_Axis_stateful(disabled, component, channel, nextPc) ==
    IF disabled
    THEN /\ pc' = nextPc
         /\ UNCHANGED <<args, now, last_movement, frame, direction, cameraOpen, exitKind,
                        actTimes, cycleCmds, cycleSeen, inFlight, cmdLog>>
    ELSE IF component # 0
    THEN main_Raise("TypeError")
    ELSE IF cmdLog # <<>> /\ cmdLog[Len(cmdLog)].target # STOP_TARGET
    THEN /\ Len(cmdLog) < MaxCmds
         /\ \E outcome \in MainOutcomes : cmdLog' = stop(cmdLog, channel, outcome).log
         /\ inFlight' = inFlight \cup {channel}
         /\ actTimes' = IF cycleCmds = 0 THEN Append(actTimes, now) ELSE actTimes
         /\ cycleCmds' = cycleCmds + 1
         /\ pc' = RunPc(channel)
         /\ UNCHANGED <<args, now, last_movement, frame, direction, cameraOpen,
                        exitKind, cycleSeen>>
    ELSE /\ pc' = nextPc
         /\ UNCHANGED <<args, now, last_movement, frame, direction, cameraOpen, exitKind,
                        actTimes, cycleCmds, cycleSeen, inFlight, cmdLog>>

main_Axis_nowait(disabled, component, channel, nextPc) ==
    IF disabled
    THEN /\ pc' = nextPc
         /\ UNCHANGED <<args, now, last_movement, frame, direction, cameraOpen, exitKind,
                        actTimes, cycleCmds, cycleSeen, inFlight, cmdLog>>
    ELSE IF component # 0
    THEN main_Raise("TypeError")
    ELSE /\ Len(cmdLog) < MaxCmds
         /\ \E outcome \in MainOutcomes : cmdLog' = stop(cmdLog, channel, outcome).log
         /\ inFlight' = inFlight \cup {channel}
         /\ actTimes' = IF cycleCmds = 0 THEN Append(actTimes, now) ELSE actTimes
         /\ cycleCmds' = cycleCmds + 1
         /\ pc' = nextPc
         /\ UNCHANGED <<args, now, last_movement, frame, direction, cameraOpen,
                        exitKind, cycleSeen>>

\* A variant that sends the stop of a zero component to a disabled axis too.
main_Axis_stop_disabled(disabled, component, channel, nextPc) ==
    IF disabled /\ component # 0
    THEN /\ pc' = nextPc
         /\ UNCHANGED <<args, now, last_movement, frame, direction, cameraOpen, exitKind,
                        actTimes, cycleCmds, cycleSeen, inFlight, cmdLog>>
    ELSE IF component # 0
    THEN main_Raise("TypeError")
    ELSE /\ Len(cmdLog) < MaxCmds
         /\ \E outcome \in MainOutcomes : cmdLog' = stop(cmdLog, channel, outcome).log
         /\ inFlight' = inFlight \cup {channel}
         /\ actTimes' = IF cycleCmds = 0 THEN Append(actTimes, now) ELSE actTimes
         /\ cycleCmds' = cycleCmds + 1
         /\ pc' = RunPc(channel)
         /\ UNCHANGED <<args, now, last_movement, frame, direction, cameraOpen,
                        exitKind, cycleSeen>>

\* One axis of lines 56-76, up to the start of the command's process: nothing
\* when the axis is disabled; with a nonzero component,
\* move_step(channel=, direction=, speed=) is called without its required
\* `duration` and raises TypeError before its body runs; with a zero component,
\* controller.stop(channel), whose subprocess.run starts the process and waits
\* for it.  The log entry carries the result the process is going to end with.
main_Axis(disabled, component, channel, nextPc) ==
    IF disabled
    THEN /\ pc' = nextPc
         /\ UNCHANGED <<args, now, last_movement, frame, direction, cameraOpen, exitKind,
                        actTimes, cycleCmds, cycleSeen, inFlight, cmdLog>>
    ELSE IF component # 0
    THEN main_Raise("TypeError")
    ELSE /\ Len(cmdLog) < MaxCmds
         /\ \E outcome \in MainOutcomes : cmdLog' = stop(cmdLog, channel, outcome).log
         /\ inFlight' = inFlight \cup {channel}
         /\ actTimes' = IF cycleCmds = 0 THEN Append(actTimes, now) ELSE actTimes
         /\ cycleCmds' = cycleCmds + 1
         /\ pc' = RunPc(channel)
         /\ UNCHANGED <<args, now, last_movement, frame, direction, cameraOpen,
                        exitKind, cycleSeen>>

main_Return_strict(channel, nextPc) ==
    IF cmdLog[Len(cmdLog)].success
    THEN /\ inFlight' = inFlight \ {channel}
         /\ pc' = nextPc
         /\ UNCHANGED <<args, now, last_movement, frame, direction, cameraOpen, exitKind,
                        actTimes, cycleCmds, cycleSeen, cmdLog>>
    ELSE main_Raise("RuntimeError")

\* subprocess.run returns (the process has ended, or was killed at the
\* timeout), _run builds the ServoCommandResult and controller.stop returns it
\* to main, which drops it and goes on.
main_Return(channel, nextPc) ==
    /\ inFlight' = inFlight \ {channel}
    /\ pc' = nextPc
    /\ UNCHANGED <<args, now, last_movement, frame, direction, cameraOpen, exitKind,
                   actTimes, cycleCmds, cycleSeen, cmdLog>>

\* Lines 56-65.
main_Horizontal ==
    /\ UNCHANGED mainOthers
    /\ pc = "horizontal"
    /\ main_Axis(args.disable_horizontal, direction[1], HorizontalChannel, "vertical")

\* Line 65: controller.stop(channel=1) returns.
main_HorizontalReturn ==
    /\ UNCHANGED mainOthers
    /\ pc = "horizontal_run"
    /\ main_Return(HorizontalChannel, "vertical")

\* Lines 67-76, then the next iteration of `while True`.
main_Vertical ==
    /\ UNCHANGED mainOthers
    /\ pc = "vertical"
    /\ main_Axis(args.disable_vertical, direction[2], VerticalChannel, "frame")

\* Line 76: controller.stop(channel=0) returns; the next iteration of `while True`.
main_VerticalReturn ==
    /\ UNCHANGED mainOthers
    /\ pc = "vertical_run"
    /\ main_Return(VerticalChannel, "frame")

\* Ctrl+C ("Press Ctrl+C to stop") while the loop runs.
main_Interrupt ==
    /\ UNCHANGED mainOthers
    /\ pc \in {"frame", "direction", "delay", "horizontal", "horizontal_run",
               "vertical", "vertical_run"}
    /\ main_Raise("KeyboardInterrupt")

(***************************************************************************)
(* capture_images() of camera_capture.py: the capture loop that computes   *)
(* the direction inline and saves an image of a centred face               *)
(***************************************************************************)
\* Bounds of the capture loop's runs: clock horizon after start-up, longest
\* time between two iterations.
MaxCapTime == 7
MaxCapStep == 3

\* `save_interval = 5  # Save interval in seconds`
save_interval == 5

\* `tolerance = 10  # Pixel tolerance for centering`
CaptureTolerance == 10

\* Lines 53-55, 62-71 and 79-97 of capture_images: the direction computed
\* inline from the frame size, the detector's boxes and the tolerance.
capture_direction(f, tolerance) ==
    LET frame_center_x == FloorDiv(f.width, 2)
        frame_center_y == FloorDiv(f.height, 2)
        face == FirstFaceCenter(f.faces, None)
        offset_x == face.x - frame_center_x
        offset_y == face.y - frame_center_y
    IN  IF face.set
        THEN <<(IF Abs(offset_x) > tolerance THEN (IF offset_x > 0 THEN 1 ELSE -1) ELSE 0),
               (IF Abs(offset_y) > tolerance THEN (IF offset_y < 0 THEN 1 ELSE -1) ELSE 0)>>
        ELSE <<0, 0>>

\* The inline computation of capture_images on the estimator's frame.
CaptureDirection ==
    /\ UNCHANGED dirOthers
    /\ "capture_images" \notin dDone
    /\ dFrame.present
    /\ dOut3' = capture_direction(dFrame, dTol)
    /\ dDone' = dDone \cup {"capture_images"}
    /\ UNCHANGED <<dFrame, dTol, dOut, dOut2>>

should_save_no_interval(faces, dir, current_time, last) ==
    Len(faces) > 0 /\ dir[1] = 0 /\ dir[2] = 0

should_save_centred(faces, dir, current_time, last) ==
    dir = <<0, 0>> /\ current_time - last >= save_interval

\* Lines 105-106: a face is detected, it is centred, and save_interval has passed.
should_save(faces, dir, current_time, last) ==
    Len(faces) > 0 /\ dir[1] = 0 /\ dir[2] = 0 /\ current_time - last >= save_interval

CapIdle ==
    /\ cPc = "idle"
    /\ cNow = 0
    /\ cFaces = <<>>
    /\ cDir = NotComputed
    /\ last_save_time = 0
    /\ cSaves = <<>>
    /\ cCamera = "none"

\* capture_images is entered; time.time() counts from the epoch, so the clock
\* is far above save_interval, and `last_save_time = 0`.
CapInit ==
    /\ cPc = "open"
    /\ cNow = 2 * save_interval
    /\ cFaces = <<>>
    /\ cDir = NotComputed
    /\ last_save_time = 0
    /\ cSaves = <<>>
    /\ cCamera = "none"

\* Lines 17-22: the camera does not open; capture_images returns.
cap_OpenFail ==
    /\ UNCHANGED capOthers
    /\ cPc = "open"
    /\ cCamera' = "failed"
    /\ cPc' = "done"
    /\ UNCHANGED <<cNow, cFaces, cDir, last_save_time, cSaves>>

\* Lines 17-38: the camera opens.
cap_Open ==
    /\ UNCHANGED capOthers
    /\ cPc = "open"
    /\ cCamera' = "open"
    /\ cPc' = "read"
    /\ UNCHANGED <<cNow, cFaces, cDir, last_save_time, cSaves>>

\* Lines 43-58: cap.read() returns a 640x480 frame, dt after the previous
\* one, and the detector reports its boxes.
cap_Read ==
    /\ UNCHANGED capOthers
    /\ cPc = "read"
    /\ \E dt \in 1..MaxCapStep :
         /\ cNow + dt <= 2 * save_interval + MaxCapTime
         /\ cNow' = cNow + dt
    /\ cFaces' \in MainFaces
    /\ cDir' = NotComputed
    /\ cPc' = "direction"
    /\ UNCHANGED <<last_save_time, cSaves, cCamera>>

\* Lines 43-47: cap.read() returns ret = False; `break`.
cap_ReadFail ==
    /\ UNCHANGED capOthers
    /\ cPc = "read"
    /\ cPc' = "finally"
    /\ UNCHANGED <<cNow, cFaces, cDir, last_save_time, cSaves, cCamera>>

\* Lines 60-102: the direction of this frame.
cap_Direction ==
    /\ UNCHANGED capOthers
    /\ cPc = "direction"
    /\ cDir' = capture_direction([present |-> TRUE, width |-> 640, height |-> 480,
                                  faces |-> cFaces], CaptureTolerance)
    /\ cPc' = "save"
    /\ UNCHANGED <<cNow, cFaces, last_save_time, cSaves, cCamera>>

\* Lines 104-114: the image is written and last_save_time set, or nothing.
cap_Save ==
    /\ UNCHANGED capOthers
    /\ cPc = "save"
    /\ IF should_save(cFaces, cDir, cNow, last_save_time)
       THEN /\ cSaves' = Append(cSaves, cNow)
            /\ last_save_time' = cNow
       ELSE UNCHANGED <<cSaves, last_save_time>>
    /\ cPc' = "key"
    /\ UNCHANGED <<cNow, cFaces, cDir, cCamera>>

\* Lines 116-121: no 'q' was pressed; the next iteration.
cap_Loop ==
    /\ UNCHANGED capOthers
    /\ cPc = "key"
    /\ cPc' = "read"
    /\ UNCHANGED <<cNow, cFaces, cDir, last_save_time, cSaves, cCamera>>

\* Lines 120-123: 'q' was pressed; `break`.
cap_Quit ==
    /\ UNCHANGED capOthers
    /\ cPc = "key"
    /\ cPc' = "finally"
    /\ UNCHANGED <<cNow, cFaces, cDir, last_save_time, cSaves, cCamera>>

\* Lines 125-126: KeyboardInterrupt inside the loop is caught.
cap_Interrupt ==
    /\ UNCHANGED capOthers
    /\ cPc \in {"read", "direction", "save", "key"}
    /\ cPc' = "finally"
    /\ UNCHANGED <<cNow, cFaces, cDir, last_save_time, cSaves, cCamera>>

\* Lines 128-132: cap.release() and cv2.destroyAllWindows().
cap_Finally ==
    /\ UNCHANGED capOthers
    /\ cPc = "finally"
    /\ cCamera' = "released"
    /\ cPc' = "done"
    /\ UNCHANGED <<cNow, cFaces, cDir, last_save_time, cSaves>>

(***************************************************************************)
(* interactive_test: the manual test loop (channels_test.py)               *)
(***************************************************************************)
\* Number of lines read from the prompt in one run.
MaxInputs == 2

\* A line after `.strip().split()`: a sequence of words.
InputLines ==
    { <<>>,
      <<"quit">>, <<"QUIT">>, <<"quit", "x">>,
      <<"stop_all">>, <<"stop_all", "x">>,
      <<"stop", "0">>, <<"stop">>, <<"stop", "x">>, <<"stop", "0", "1">>,
      <<"rotate", "0", "1", "50">>, <<"Rotate", "1", "-1", "100">>,
      <<"rotate", "0", "5", "50">>, <<"rotate", "0", "1", "200">>,
      <<"rotate", "0", "1">>, <<"rotate", "x", "1", "50">>,
      <<"test", "1">>, <<"test">>, <<"test", "x">>,
      <<"fire">>, <<"fire", "0">> }

\* str.lower() on the words above.
lower(word) ==
    CASE word = "QUIT" -> "quit"
      [] word = "Rotate" -> "rotate"
      [] OTHER -> word

\* A variant of int() that reads every non-numeric word as 0.
int_lenient(word) ==
    CASE word = "0" -> <<0>>
      [] word = "1" -> <<1>>
      [] word = "-1" -> <<-1>>
      [] word = "5" -> <<5>>
      [] word = "50" -> <<50>>
      [] word = "100" -> <<100>>
      [] word = "200" -> <<200>>
      [] OTHER -> <<0>>

\* int(word): <<n>> for a decimal literal, <<>> when int() raises ValueError.
int(word) ==
    CASE word = "0" -> <<0>>
      [] word = "1" -> <<1>>
      [] word = "-1" -> <<-1>>
      [] word = "5" -> <<5>>
      [] word = "50" -> <<50>>
      [] word = "100" -> <<100>>
      [] word = "200" -> <<200>>
      [] OTHER -> <<>>

\* A variant of test_individual_channel that ends on the second position.
test_individual_channel_nostop(profile, channel) ==
    << [ch |-> channel, target |-> rotate_position(profile, 1, 75)],
       [ch |-> channel, target |-> rotate_position(profile, -1, 50)],
       [ch |-> channel, target |-> set_position_clamp(profile, 5000)],
       [ch |-> channel, target |-> pulse_neutral(profile)],
       [ch |-> channel, target |-> set_position_clamp(profile, 7000)] >>

\* The setTarget calls of ServoChannelTester.test_individual_channel, in order.
test_individual_channel(profile, channel) ==
    << [ch |-> channel, target |-> rotate_position(profile, 1, 75)],
       [ch |-> channel, target |-> rotate_position(profile, -1, 50)],
       [ch |-> channel, target |-> set_position_clamp(profile, 5000)],
       [ch |-> channel, target |-> set_position_clamp(profile, 7000)],
       [ch |-> channel, target |-> pulse_neutral(profile)] >>

\* The setTarget calls of stop_all, in order.
stop_all_commands(profile) ==
    [c \in 1..NumChannels |-> [ch |-> c - 1, target |-> pulse_neutral(profile)]]

Invalid == [kind |-> "invalid", cmds |-> <<>>]

Format == [kind |-> "format", cmds |-> <<>>]

Run(cmds) == [kind |-> "run", cmds |-> cmds]

\* The if/elif chain of the loop body on a non-empty command: what the branch
\* taken does. "invalid" is the else branch, "format" the ValueError handler.
dispatch(command, profile) ==
    LET cmd == lower(command[1])
        n   == Len(command)
    IN  IF cmd = "quit" THEN [kind |-> "break", cmds |-> <<>>]
        ELSE IF cmd = "test" /\ n = 2 THEN
            IF int(command[2]) = <<>> THEN Format
            ELSE Run(test_individual_channel(profile, int(command[2])[1]))
        ELSE IF cmd = "rotate" /\ n = 4 THEN
            IF \E i \in 2..4 : int(command[i]) = <<>> THEN Format
            ELSE LET r == rotate(<<>>, profile, int(command[2])[1], int(command[3])[1],
                                 int(command[4])[1], TRUE)
                 IN  IF r.outcome = "ValueError" THEN Format ELSE Run(r.log)
        ELSE IF cmd = "stop" /\ n = 2 THEN
            IF int(command[2]) = <<>> THEN Format
            ELSE Run(<<[ch |-> int(command[2])[1], target |-> pulse_neutral(profile)]>>)
        ELSE IF cmd = "stop_all" THEN Run(stop_all_commands(profile))
        ELSE Invalid

\* The message the loop itself prints for a branch ("" when it prints none).
message(kind) ==
    CASE kind = "invalid" -> "Invalid command. Type 'quit' to exit."
      [] kind = "format" -> "Invalid command format."
      [] OTHER -> ""

IIdle ==
    /\ iPc = "idle"
    /\ iCount = 0
    /\ iCommand = <<>>
    /\ iPrinted = ""

\* `with MaestroServoController() as controller:` has been entered: a
\* standard-profile controller, connected when a port was found.
IInit ==
    /\ iPc = "start"
    /\ iCount = 0
    /\ iCommand = <<>>
    /\ iPrinted = ""
    /\ mConnected \in BOOLEAN
    /\ mLink = (IF mConnected THEN "open" ELSE "none")
    /\ mCloses = 0
    /\ mProfile = "standard"
    /\ mLog = <<>>
    /\ mPc = "idle"
    /\ mCall = NoMCall
    /\ mOutcome = "none"
    /\ mChannel = 0

\* `if not controller.is_connected(): ... return`
i_Enter ==
    /\ UNCHANGED iOthers
    /\ iPc = "start"
    /\ IF mConnected
       THEN /\ iPc' = "prompt"
            /\ UNCHANGED iPrinted
       ELSE /\ iPc' = "return"
            /\ iPrinted' = "Could not connect to Maestro controller."
    /\ UNCHANGED <<iCount, iCommand, mVars>>

\* One pass of the loop body: a line is read and its branch runs to the end.
\* Of the setTarget calls of the branch the first k reach the device; when
\* there are more than k, the next one raises on the link and the exception
\* leaves the loop (only ValueError and IndexError are handled).
i_Command ==
    /\ UNCHANGED iOthers
    /\ iPc = "prompt" /\ iCount < MaxInputs
    /\ \E command \in InputLines, k \in 0..NumChannels :
         LET d == IF command = <<>> THEN [kind |-> "continue", cmds |-> <<>>]
                  ELSE dispatch(command, mProfile)
         IN  /\ iCommand' = command
             /\ iCount' = iCount + 1
             /\ mLog' = mLog \o SubSeq(d.cmds, 1, Min(k, Len(d.cmds)))
             /\ iPrinted' = message(d.kind)
             /\ iPc' = (IF k < Len(d.cmds) THEN "raised"
                        ELSE IF d.kind = "break" THEN "break" ELSE "prompt")
    /\ UNCHANGED <<mConnected, mLink, mCloses, mProfile, mPc, mCall, mOutcome, mChannel>>

\* Ctrl+C at the prompt: `except KeyboardInterrupt: break`.
i_Interrupt ==
    /\ UNCHANGED iOthers
    /\ iPc = "prompt"
    /\ iPc' = "break"
    /\ UNCHANGED <<iCount, iCommand, iPrinted, mVars>>

\* The `with` block is left (after the loop, by the early return or by an
\* exception): __exit__ calls close(), which stops all servos, closes the
\* link and forgets it; a setTarget that raises ends close() before that.
i_Exit ==
    /\ UNCHANGED iOthers
    /\ iPc \in {"break", "return", "raised"}
    /\ iPrinted' = (IF iPc = "break" THEN "Exiting interactive mode..." ELSE iPrinted)
    /\ mCloses' = mCloses + 1
    /\ iPc' = "done"
    /\ IF mConnected
       THEN \E k \in 0..NumChannels :
              /\ mLog' = mLog \o SubSeq(stop_all_commands(mProfile), 1, k)
              /\ mLink' = (IF k = NumChannels THEN "closed" ELSE mLink)
              /\ mConnected' = (k < NumChannels)
       ELSE UNCHANGED <<mLog, mLink, mConnected>>
    /\ UNCHANGED <<iCount, iCommand, mProfile, mPc, mCall, mOutcome, mChannel>>

(***************************************************************************)
(* ServoChannelTester: the channel test suite (channels_test.py)           *)
(***************************************************************************)
\* `speeds = [25, 50, 75, 100]` of test_speed_variations.
speeds == <<25, 50, 75, 100>>

\* Values of the parameter `steps` of test_position_sweep (default 5).
SweepSteps == {0, 1, 2, 5}

\* The setTarget calls of test_speed_variations, in order: forward and
\* reverse at each speed, then the stop.
test_speed_variations(profile, channel) ==
    Append([i \in 1..(2 * Len(speeds)) |->
               [ch |-> channel,
                target |-> rotate_position(profile, IF i % 2 = 1 THEN 1 ELSE -1,
                                           speeds[(i + 1) \div 2])]],
           [ch |-> channel, target |-> pulse_neutral(profile)])

\* The setTarget calls of test_position_sweep, in order: set_position of
\* int(SERVO_MIN + (SERVO_MAX - SERVO_MIN) * i / (steps - 1)) for i in
\* range(steps), then the stop.  (steps = 1 divides by zero before that.)
test_position_sweep(profile, channel, steps) ==
    Append([i \in 1..steps |->
               [ch |-> channel,
                target |-> set_position_clamp(profile,
                               SERVO_MIN + ((SERVO_MAX - SERVO_MIN) * (i - 1)) \div (steps - 1))]],
           [ch |-> channel, target |-> pulse_neutral(profile)])

NoTCall == [op |-> "none", ch |-> 0, steps |-> 0]

TCalls ==
    {[NoTCall EXCEPT !.op = o, !.ch = c] :
        o \in {"test_individual_channel", "test_speed_variations"}, c \in 0..MaxChan}
    \cup {[NoTCall EXCEPT !.op = "test_position_sweep", !.ch = c, !.steps = n] :
            c \in 0..MaxChan, n \in SweepSteps}
    \cup {[NoTCall EXCEPT !.op = "test_all_channels"]}

\* The controller calls of the function being run, for the channel at hand.
tester_commands(call, profile, channel) ==
    CASE call.op = "test_speed_variations" -> test_speed_variations(profile, call.ch)
      [] call.op = "test_position_sweep" -> test_position_sweep(profile, call.ch, call.steps)
      [] call.op = "test_all_channels" -> test_individual_channel(profile, channel)
      [] OTHER -> test_individual_channel(profile, call.ch)

TIdle ==
    /\ tPc = "idle"
    /\ tCall = NoTCall
    /\ tQueue = <<>>
    /\ tChannel = 0
    /\ tOutcome = "none"

\* ServoChannelTester(controller) has been built on a controller of either
\* profile, connected or not, and one of its tests is called.
TInit ==
    /\ tPc = "call"
    /\ tCall \in TCalls
    /\ tQueue = <<>>
    /\ tChannel = 0
    /\ tOutcome = "none"
    /\ mConnected \in BOOLEAN
    /\ mLink = (IF mConnected THEN "open" ELSE "none")
    /\ mCloses = 0
    /\ mProfile \in Profiles
    /\ mLog = <<>>
    /\ mPc = "idle"
    /\ mCall = NoMCall
    /\ mOutcome = "none"
    /\ mChannel = 0

\* The test is entered: test_position_sweep computes its positions
\* (ZeroDivisionError for steps = 1); the first controller call of any test
\* raises RuntimeError on a controller that is not connected.
tester_Begin ==
    /\ UNCHANGED tOthers
    /\ tPc = "call"
    /\ IF tCall.op = "test_position_sweep" /\ tCall.steps = 1
       THEN /\ tPc' = "done"
            /\ tOutcome' = "ZeroDivisionError"
            /\ UNCHANGED tQueue
       ELSE IF ~mConnected
       THEN /\ tPc' = "done"
            /\ tOutcome' = "RuntimeError"
            /\ UNCHANGED tQueue
       ELSE /\ tPc' = "run"
            /\ tQueue' = tester_commands(tCall, mProfile, 0)
            /\ UNCHANGED tOutcome
    /\ UNCHANGED <<tCall, tChannel, mVars>>

\* The next controller call of the test: its setTarget reaches the device, or
\* raises on the link, which no test handles.
tester_Command ==
    /\ UNCHANGED tOthers
    /\ tPc = "run" /\ tQueue # <<>>
    /\ \E ok \in BOOLEAN :
         /\ mLog' = setTarget(mLog, Head(tQueue).ch, Head(tQueue).target, ok)
         /\ tQueue' = (IF ok THEN Tail(tQueue) ELSE tQueue)
         /\ tPc' = (IF ok THEN "run" ELSE "done")
         /\ tOutcome' = (IF ok THEN tOutcome ELSE "SerialException")
    /\ UNCHANGED <<tCall, tChannel, mConnected, mLink, mCloses, mProfile, mPc, mCall,
                   mOutcome, mChannel>>

\* The test function has made its last call: it returns, or
\* test_all_channels goes on to the next channel of `range(24)`.
tester_Return ==
    /\ UNCHANGED tOthers
    /\ tPc = "run" /\ tQueue = <<>>
    /\ IF tCall.op = "test_all_channels" /\ tChannel + 1 < NumChannels
       THEN /\ tChannel' = tChannel + 1
            /\ tQueue' = tester_commands(tCall, mProfile, tChannel + 1)
            /\ UNCHANGED <<tPc, tOutcome>>
       ELSE /\ tPc' = "done"
            /\ tOutcome' = "returned"
            /\ UNCHANGED <<tChannel, tQueue>>
    /\ UNCHANGED <<tCall, mVars>>

\* Ctrl+C while a test runs (in one of its sleeps).  test_all_channels
\* catches it, calls stop_all (whose setTarget k may raise on the link) and
\* raises it again; the other tests do not catch it.
tester_Interrupt ==
    /\ UNCHANGED tOthers
    /\ tPc = "run"
    /\ tPc' = "done"
    /\ IF tCall.op = "test_all_channels"
       THEN \E k \in 0..NumChannels :
              /\ mLog' = mLog \o SubSeq(stop_all_commands(mProfile), 1, k)
              /\ tOutcome' = (IF k = NumChannels THEN "KeyboardInterrupt"
                              ELSE "SerialException")
       ELSE /\ tOutcome' = "KeyboardInterrupt"
            /\ UNCHANGED mLog
    /\ UNCHANGED <<tCall, tQueue, tChannel, mConnected, mLink, mCloses, mProfile, mPc,
                   mCall, mOutcome, mChannel>>

(***************************************************************************)
(* Specifications                                                          *)
(***************************************************************************)
InitDirection == DirInit /\ DrvIdle /\ MIdle /\ MainIdle /\ CapIdle /\ IIdle /\ TIdle

NextDirection ==
    \/ GetDirection
    \/ GetFaceDirection
    \/ CaptureDirection

\* The estimator on one frame.
SpecDirection == InitDirection /\ [][NextDirection]_vars

InitDriver == DirIdle /\ DrvInit /\ MIdle /\ MainIdle /\ CapIdle /\ IIdle /\ TIdle

NextDriver ==
    \/ Call_set_servo_target
    \/ Call_move_cw
    \/ Call_move_ccw
    \/ Call_stop
    \/ Result_raise_for_error
    \/ move_step_Move
    \/ move_step_Wake
    \/ move_step_Interrupt
    \/ move_step_Stop

\* One call of the Controller's public API.
SpecDriver == InitDriver /\ [][NextDriver]_vars

InitMaestro == DirIdle /\ DrvIdle /\ MInit /\ MainIdle /\ CapIdle /\ IIdle /\ TIdle

NextMaestro ==
    \/ Call_set_position
    \/ Call_mstop
    \/ stop_all_Begin
    \/ stop_all_Step
    \/ stop_all_Fail
    \/ stop_all_Return
    \/ Call_rotate
    \/ close_Begin
    \/ close_Finish
    \/ exit_close
    \/ Call_get_position
    \/ Call_is_moving
    \/ calibration_Begin
    \/ calibration_Step
    \/ calibration_Interrupt
    \/ calibration_Return

\* One call of the MaestroServoController's API.
SpecMaestro == InitMaestro /\ [][NextMaestro]_vars

InitMain == DirIdle /\ DrvIdle /\ MIdle /\ MainInit /\ CapIdle /\ IIdle /\ TIdle

NextMain ==
    \/ main_NameFault
    \/ main_Start
    \/ main_GetFrame
    \/ main_CaptureFault
    \/ main_GetDirection
    \/ main_Suppress
    \/ main_Pass
    \/ main_Horizontal
    \/ main_HorizontalReturn
    \/ main_Vertical
    \/ main_VerticalReturn
    \/ main_Interrupt

\* One run of control_water_gun.main.
SpecMain == InitMain /\ [][NextMain]_vars

InitCapture == DirIdle /\ DrvIdle /\ MIdle /\ MainIdle /\ CapInit /\ IIdle /\ TIdle

NextCapture ==
    \/ cap_OpenFail
    \/ cap_Open
    \/ cap_Read
    \/ cap_ReadFail
    \/ cap_Direction
    \/ cap_Save
    \/ cap_Loop
    \/ cap_Quit
    \/ cap_Interrupt
    \/ cap_Finally

SpecCapture == InitCapture /\ [][NextCapture]_vars

InitInteractive == DirIdle /\ DrvIdle /\ MainIdle /\ CapIdle /\ IInit /\ TIdle

NextInteractive ==
    \/ i_Enter
    \/ i_Command
    \/ i_Interrupt
    \/ i_Exit

SpecInteractive == InitInteractive /\ [][NextInteractive]_vars

InitTester == DirIdle /\ DrvIdle /\ MainIdle /\ CapIdle /\ IIdle /\ TInit

NextTester ==
    \/ tester_Begin
    \/ tester_Command
    \/ tester_Return
    \/ tester_Interrupt

SpecTester == InitTester /\ [][NextTester]_vars

(***************************************************************************)
(* Properties                                                              *)
(***************************************************************************)
\* The offsets of the first reported box from the frame centre, floor division.
FirstOffsetX == (dFrame.faces[1].x + (dFrame.faces[1].w \div 2)) - (dFrame.width \div 2)

FirstOffsetY == (dFrame.faces[1].y + (dFrame.faces[1].h \div 2)) - (dFrame.height \div 2)

\* The sign rule of the estimator: right is +1, left is -1; above is +1, below is -1.
CanonicalSignal ==
    <<(IF FirstOffsetX > dTol THEN 1 ELSE IF FirstOffsetX < -dTol THEN -1 ELSE 0),
      (IF FirstOffsetY < -dTol THEN 1 ELSE IF FirstOffsetY > dTol THEN -1 ELSE 0)>>

\* C1: for every frame size, tolerance and first detected box, both estimators
\* return horizontal +1 / -1 when the first box's centre is more than `tolerance`
\* right / left of the frame centre, vertical +1 / -1 when it is more than
\* `tolerance` above / below, and 0 on an axis whose offset is within the
\* tolerance, equality included.
C1_SignRule ==
    (dFrame.present /\ dFrame.faces # <<>>) =>
        /\ ("get_direction" \in dDone => dOut = CanonicalSignal)
        /\ ("get_face_direction" \in dDone => dOut2 = CanonicalSignal)

\* C1 witness: both estimators have returned for a box whose horizontal offset
\* equals a positive tolerance (centred) and which lies above the tolerance band.
C1_Witness ==
    /\ dDone = {"get_direction", "get_face_direction"}
    /\ dFrame.present /\ dFrame.faces # <<>>
    /\ dTol > 0 /\ FirstOffsetX = dTol /\ FirstOffsetY < -dTol
    /\ dOut = <<0, 1>> /\ dOut2 = <<0, 1>>

\* C2: with no bounding box, or no frame, both estimators return (0, 0), for
\* every frame size and tolerance.
C2_NoDetection ==
    (~dFrame.present \/ dFrame.faces = <<>>) =>
        /\ ("get_direction" \in dDone => dOut = <<0, 0>>)
        /\ ("get_face_direction" \in dDone => dOut2 = <<0, 0>>)

\* C2 witness: get_direction has returned for a present frame without boxes.
C2_Witness ==
    /\ "get_direction" \in dDone
    /\ dFrame.present /\ dFrame.faces = <<>>
    /\ dOut = <<0, 0>>

\* C3: set_servo_target with validation and a negative channel or a negative
\* target raises ValueError and never runs the executable.
C3_ValidationFault ==
    (/\ drvCall.op = "set_servo_target" /\ drvCall.validate
     /\ (drvCall.ch < 0 \/ drvCall.target < 0)) =>
        /\ cmdLog = <<>>
        /\ (drvPc = "done" => drvOutcome = "ValueError")

\* C3 witness: such a call, with channel -1 and a valid target, has ended.
C3_Witness ==
    /\ drvCall.op = "set_servo_target" /\ drvCall.validate
    /\ drvCall.ch = -1 /\ drvCall.target = STOP_TARGET
    /\ drvPc = "done" /\ drvOutcome = "ValueError" /\ cmdLog = <<>>

\* C4: every target set_servo_target (default validation, valid channel) hands
\* to the executable for a non-negative request lies between the
\* full-clockwise and the full-counter-clockwise target.
C4_TargetsClamped ==
    (/\ drvCall.op = "set_servo_target" /\ drvCall.validate
     /\ drvCall.ch >= 0 /\ drvCall.target >= 0) =>
        \A i \in DOMAIN cmdLog :
            FULL_CW_TARGET <= cmdLog[i].target /\ cmdLog[i].target <= FULL_CCW_TARGET

\* The stop commands that reached the device for a channel.
StopsTo(ch) ==
    {i \in DOMAIN mLog : mLog[i].ch = ch /\ mLog[i].target = pulse_neutral(mProfile)}

\* C5: when stop_all on a connected controller has ended, every channel
\* 0..23 has received exactly one stop, also when the link failed on a channel.
C5_StopAllSweep ==
    (mCall.op = "stop_all" /\ mConnected /\ mPc = "done") =>
        \A ch \in 0..(NumChannels - 1) : Cardinality(StopsTo(ch)) = 1

\* C6: when move_step has ended after issuing a nonzero move command, the stop
\* for the same channel has been issued after it, also when the wait was
\* interrupted.
C6_StopAfterMove ==
    (/\ drvCall.op = "move_step" /\ drvPc = "done"
     /\ Len(cmdLog) >= 1 /\ cmdLog[1].target # STOP_TARGET) =>
        /\ Len(cmdLog) = 2
        /\ cmdLog[2].ch = drvCall.ch
        /\ cmdLog[2].target = STOP_TARGET

\* The commands sent to one channel, in order.
CmdsTo(log, ch) == SelectSeq(log, LAMBDA c : c.ch = ch)

\* HOLDING: the last command sent to the channel is a nonzero move.
Holding(log, ch) ==
    /\ CmdsTo(log, ch) # <<>>
    /\ CmdsTo(log, ch)[Len(CmdsTo(log, ch))].target # STOP_TARGET

\* The last command sent to the channel is a stop.
Stopped(log, ch) ==
    /\ CmdsTo(log, ch) # <<>>
    /\ CmdsTo(log, ch)[Len(CmdsTo(log, ch))].target = STOP_TARGET

\* C7: whenever main has ended, on any exit path, the Frame Source is
\* released and both axes have received a stop as their last command.
C7_ShutdownCleanup ==
    pc = "exited" =>
        /\ ~cameraOpen
        /\ Stopped(cmdLog, HorizontalChannel)
        /\ Stopped(cmdLog, VerticalChannel)

\* C8: any two cycles that issue hardware commands are at least `delay` apart.
C8_RateLimit ==
    \A i \in 1..(Len(actTimes) - 1) : actTimes[i + 1] - actTimes[i] >= args.delay

AxisAt(p) ==
    IF p = "horizontal"
    THEN [component |-> direction[1], channel |-> HorizontalChannel,
          disabled |-> args.disable_horizontal]
    ELSE [component |-> direction[2], channel |-> VerticalChannel,
          disabled |-> args.disable_vertical]

C11_MoveAndHold ==
    [][(/\ pc \in {"horizontal", "vertical"}
        /\ AxisAt(pc).component # 0
        /\ ~AxisAt(pc).disabled
        /\ exitKind' # "KeyboardInterrupt") =>
          /\ pc' # "exited"
          /\ Holding(cmdLog', AxisAt(pc).channel)
          /\ IF AxisAt(pc).component = 1
             THEN cmdLog'[Len(cmdLog')].target < STOP_TARGET
             ELSE cmdLog'[Len(cmdLog')].target > STOP_TARGET]_vars

\* The nonzero moves a step has added to the log for a channel.
NewMoves(ch) ==
    {i \in (Len(cmdLog) + 1)..Len(cmdLog') :
        cmdLog'[i].ch = ch /\ cmdLog'[i].target # STOP_TARGET}

\* C12: in a non-suppressed cycle whose signal has both components nonzero
\* (both axes enabled), the step of each axis dispatches exactly one move for
\* that axis and the cycle goes on: no fault ends it.
C12_BothAxesMove ==
    [][(/\ pc \in {"horizontal", "vertical"}
        /\ direction[1] # 0 /\ direction[2] # 0
        /\ ~args.disable_horizontal /\ ~args.disable_vertical
        /\ exitKind' # "KeyboardInterrupt") =>
          /\ exitKind' = "none"
          /\ Cardinality(NewMoves(AxisAt(pc).channel)) = 1]_vars

\* The full target of the directional call at hand.
FullTarget == IF drvCall.op = "move_cw" THEN FULL_CW_TARGET ELSE FULL_CCW_TARGET

\* The pulse _scaled_target computes for the call's direction at speed s/1000.
PulseAt(s) == _scaled_target(STOP_TARGET, FullTarget, Num(s)).target

\* C13: the pulse move_cw / move_ccw issue for a speed in [0, 1] is monotonic
\* in the speed: every lower speed gives a pulse at least as close to the stop
\* pulse and every higher speed one at least as close to the full target
\* (non-increasing for move_cw, non-decreasing for move_ccw); speed 0 gives
\* exactly the stop pulse in both directions.
C13_Monotonic ==
    (/\ drvCall.op \in {"move_cw", "move_ccw"} /\ drvPc = "done" /\ drvCall.ch >= 0
     /\ drvCall.speed.kind = "num"
     /\ 0 <= drvCall.speed.val /\ drvCall.speed.val <= 1000) =>
        /\ Len(cmdLog) = 1
        /\ \A s \in 0..drvCall.speed.val :
             IF drvCall.op = "move_cw"
             THEN PulseAt(s) >= cmdLog[1].target
             ELSE PulseAt(s) <= cmdLog[1].target
        /\ \A s \in drvCall.speed.val..1000 :
             IF drvCall.op = "move_cw"
             THEN PulseAt(s) <= cmdLog[1].target
             ELSE PulseAt(s) >= cmdLog[1].target
        /\ (drvCall.speed.val = 0 => cmdLog[1].target = STOP_TARGET)

\* C13 witness: move_cw at half speed has issued the pulse halfway between the
\* stop and the full-clockwise target.
C13_Witness ==
    /\ drvCall.op = "move_cw" /\ drvPc = "done"
    /\ drvCall.speed = Num(500)
    /\ Len(cmdLog) = 1 /\ cmdLog[1].target = 4950

\* The speed inside [0, 1] that a finite speed is clamped to.
ClampedSpeed == Num(Max(0, Min(1000, drvCall.speed.val)))

\* The log the call at hand would leave had its speed been s.
LogWithSpeed(s, outcome) ==
    IF drvCall.op = "move_cw"
    THEN move_cw(<<>>, drvCall.ch, s, outcome).log
    ELSE move_ccw(<<>>, drvCall.ch, s, outcome).log

\* C14: for every channel and direction, a move with a speed above 1 hands the
\* executable the same command (channel and target) as the move with speed 1,
\* and a move with a speed below 0 the same command as the move with speed 0.
C14_SpeedClamp ==
    (/\ drvCall.op \in {"move_cw", "move_ccw"} /\ drvPc = "done"
     /\ drvCall.speed.kind = "num"
     /\ (drvCall.speed.val > 1000 \/ drvCall.speed.val < 0)) =>
        \A outcome \in RunOutcomes :
            /\ Len(cmdLog) = Len(LogWithSpeed(ClampedSpeed, outcome))
            /\ \A i \in DOMAIN cmdLog :
                 /\ cmdLog[i].ch = LogWithSpeed(ClampedSpeed, outcome)[i].ch
                 /\ cmdLog[i].target = LogWithSpeed(ClampedSpeed, outcome)[i].target

\* C14 witness: move_ccw at speed 1.5 has issued the full counter-clockwise target.
C14_Witness ==
    /\ drvCall.op = "move_ccw" /\ drvPc = "done"
    /\ drvCall.speed = Num(1500)
    /\ Len(cmdLog) = 1 /\ cmdLog[1].target = FULL_CCW_TARGET

\* C15: whatever the speed value, move_cw / move_ccw on a valid channel raise
\* nothing and issue one target between the stop target and their full
\* target: move_cw in [4000, 5900], move_ccw in [5900, 8000].
C15_SpeedNeverRejected ==
    (/\ drvCall.op \in {"move_cw", "move_ccw"} /\ drvPc = "done" /\ drvCall.ch >= 0) =>
        /\ drvOutcome = "returned"
        /\ Len(cmdLog) = 1
        /\ IF drvCall.op = "move_cw"
           THEN FULL_CW_TARGET <= cmdLog[1].target /\ cmdLog[1].target <= STOP_TARGET
           ELSE STOP_TARGET <= cmdLog[1].target /\ cmdLog[1].target <= FULL_CCW_TARGET

\* C16: _run raises for neither transport failure: "executable not found" is
\* returned as a non-success result with code 127 and "timeout exceeded" as a
\* non-success result with code 124; a process that ran is reported with its
\* exit status, and success is reported exactly when that status is 0.
C16_TransportResults ==
    /\ \A i \in DOMAIN cmdLog :
         /\ (cmdLog[i].run.kind = "notfound" => ~cmdLog[i].success /\ cmdLog[i].rc = 127)
         /\ (cmdLog[i].run.kind = "timeout" => ~cmdLog[i].success /\ cmdLog[i].rc = 124)
         /\ (cmdLog[i].run.kind = "exit" =>
                /\ cmdLog[i].rc = cmdLog[i].run.status
                /\ (cmdLog[i].success <=> cmdLog[i].run.status = 0))
         /\ (cmdLog[i].success => cmdLog[i].rc = 0)
    /\ (/\ drvCall.op \in {"set_servo_target", "move_cw", "move_ccw", "stop"}
        /\ drvPc = "done" /\ cmdLog # <<>>) =>
          /\ drvOutcome = "returned"
          /\ drvResult = <<[success |-> cmdLog[1].success, return_code |-> cmdLog[1].rc]>>

\* C16 witness: stop on a valid channel has returned the result (False, 127)
\* for an executable that was not found.
C16_Witness ==
    /\ drvCall.op = "stop" /\ drvPc = "done" /\ drvOutcome = "returned"
    /\ Len(cmdLog) = 1 /\ cmdLog[1].run.kind = "notfound"
    /\ drvResult = <<[success |-> FALSE, return_code |-> 127]>>

\* C17: raise_for_error acts on a result the call has returned (the command
\* has run); it raises RuntimeError exactly when the result is non-success,
\* and on a success result raises nothing and returns that same result.
C17_RaiseForError ==
    [][drvPc' = "checked" =>
          /\ drvPc = "done" /\ drvOutcome = "returned"
          /\ drvResult # <<>> /\ cmdLog # <<>> /\ cmdLog' = cmdLog
          /\ (drvOutcome' = "RuntimeError" <=> ~drvResult[1].success)
          /\ (drvResult[1].success => drvOutcome' = "returned" /\ drvResult' = drvResult)]_vars

\* C17 witness: raise_for_error has raised on the result of a timed-out command.
C17_Witness ==
    /\ drvPc = "checked" /\ drvOutcome = "RuntimeError"
    /\ Len(cmdLog) = 1 /\ cmdLog[1].rc = 124 /\ ~cmdLog[1].success

\* Where the loop goes after the command of an axis has returned.
AfterRun(p) == IF p = "horizontal_run" THEN "vertical" ELSE "frame"

C21_CaptureFailureFatal ==
    exitKind = "CaptureError" =>
        /\ pc = "exited"
        /\ ~cameraOpen
        /\ Stopped(cmdLog, HorizontalChannel)
        /\ Stopped(cmdLog, VerticalChannel)

\* C22 (as stated): in a cycle of capture_images the frame is saved exactly
\* when the direction is (0, 0), the no-detection (0, 0) included, and
\* save_interval has passed since the last save.
C22_SavedIffCentred ==
    [][(cPc = "save" /\ cPc' = "key") =>
         ((cSaves' # cSaves) <=>
             (cDir = <<0, 0>> /\ cNow - last_save_time >= save_interval))]_vars

\* C22 (amended): the frame is saved exactly when a face is detected, the
\* direction is (0, 0) and save_interval has passed since the last save; the
\* save records the current time as the last-save time; in every other cycle,
\* and in every other step, nothing is saved and the last-save time is kept.
C22_SavedIffFaceCentred ==
    [][IF /\ cPc = "save" /\ cPc' = "key"
          /\ Len(cFaces) > 0
          /\ cDir = <<0, 0>>
          /\ cNow - last_save_time >= save_interval
       THEN cSaves' = Append(cSaves, cNow) /\ last_save_time' = cNow
       ELSE cSaves' = cSaves /\ last_save_time' = last_save_time]_vars

\* One frame was saved, and a later cycle with a centred face, less than
\* save_interval after it, has passed its save step.
C22_Witness ==
    /\ cPc = "key"
    /\ Len(cSaves) = 1
    /\ Len(cFaces) > 0
    /\ cDir = <<0, 0>>
    /\ cNow > last_save_time
    /\ cNow - last_save_time < save_interval

\* C23: with several boxes reported, the direction is that of the first box:
\* whatever boxes follow the first one (none, others, more), get_direction
\* and the inline computation of capture_images return the same pair.
C23_FirstBoxOnly ==
    (dFrame.present /\ dFrame.faces # <<>>) =>
        \A tail \in SeqsUpTo(ExtraBoxes(dFrame.width, dFrame.height), MaxExtra + 1) :
            /\ "get_direction" \in dDone =>
                 get_direction([dFrame EXCEPT !.faces = <<Head(dFrame.faces)>> \o tail],
                               dTol) = dOut
            /\ "capture_images" \in dDone =>
                 capture_direction([dFrame EXCEPT !.faces = <<Head(dFrame.faces)>> \o tail],
                                   dTol) = dOut3

\* Two boxes were reported and the second one alone would give another pair.
C23_Witness ==
    /\ {"get_direction", "capture_images"} \subseteq dDone
    /\ Len(dFrame.faces) = 2
    /\ get_direction([dFrame EXCEPT !.faces = Tail(dFrame.faces)], dTol) # dOut
    /\ dOut # <<0, 0>>

\* C29: on the same frame, tolerance and detector result, get_direction,
\* get_face_direction and the inline computation of capture_images return
\* the same pair.
C29_SameDirection ==
    /\ {"get_direction", "get_face_direction"} \subseteq dDone => dOut = dOut2
    /\ {"get_direction", "capture_images"} \subseteq dDone => dOut = dOut3
    /\ {"get_face_direction", "capture_images"} \subseteq dDone => dOut2 = dOut3

\* All three have run on a frame whose first box is off centre on both axes.
C29_Witness ==
    /\ dDone = {"get_direction", "get_face_direction", "capture_images"}
    /\ dOut[1] # 0
    /\ dOut[2] # 0
    /\ Len(dFrame.faces) = 2

\* C24: a rotate that is accepted and is not a stop commands, forward,
\* neutral + (pulse_max - neutral) * speed/100 and, in reverse,
\* neutral - (neutral - pulse_min) * speed/100, for either servo profile: at
\* speed 100 exactly pulse_max forward and pulse_min in reverse.
C24_RotateInterpolation ==
    (mCall.op = "rotate" /\ mPc = "done" /\ mOutcome = "returned" /\ mCall.direction # 0) =>
        /\ Len(mLog) = 1
        /\ mLog[1].ch = mCall.ch
        /\ 100 * mLog[1].target =
             (IF mCall.direction > 0
              THEN 100 * pulse_neutral(mProfile)
                   + (pulse_max(mProfile) - pulse_neutral(mProfile)) * mCall.speed
              ELSE 100 * pulse_neutral(mProfile)
                   - (pulse_neutral(mProfile) - pulse_min(mProfile)) * mCall.speed)
        /\ mCall.speed = 100 =>
             mLog[1].target = (IF mCall.direction > 0 THEN pulse_max(mProfile)
                               ELSE pulse_min(mProfile))

\* A full-speed reverse rotate of an FS90R has commanded FS90R_MIN.
C24_Witness ==
    /\ mCall.op = "rotate" /\ mPc = "done" /\ mOutcome = "returned"
    /\ mProfile = "fs90r"
    /\ mCall.direction = -1
    /\ mCall.speed = 100
    /\ mLog = <<[ch |-> mCall.ch, target |-> FS90R_MIN]>>

\* C25: Controller.stop(channel) does what set_servo_target(channel,
\* STOP_TARGET) does: the same validation, one command with the neutral pulse
\* to that channel, and the same ServoCommandResult returned.
C25_StopIsNeutralTarget ==
    (drvCall.op = "stop" /\ drvPc = "done") =>
        /\ \E outcome \in RunOutcomes :
             /\ cmdLog = set_servo_target(<<>>, drvCall.ch, STOP_TARGET, TRUE, outcome).log
             /\ drvResult =
                  set_servo_target(<<>>, drvCall.ch, STOP_TARGET, TRUE, outcome).result
             /\ (drvOutcome = "ValueError") =
                  set_servo_target(<<>>, drvCall.ch, STOP_TARGET, TRUE, outcome).raised
        /\ IF drvCall.ch >= 0
           THEN /\ drvOutcome = "returned"
                /\ Len(cmdLog) = 1
                /\ cmdLog[1].ch = drvCall.ch
                /\ cmdLog[1].target = STOP_TARGET
           ELSE drvOutcome = "ValueError" /\ cmdLog = <<>>

\* A stop has returned the result of its one command, and a stop of a
\* negative channel is the case next to it.
C25_Witness ==
    /\ drvCall.op = "stop" /\ drvPc = "done"
    /\ drvOutcome = "returned"
    /\ Len(cmdLog) = 1
    /\ cmdLog[1].target = STOP_TARGET
    /\ drvResult # <<>>
    /\ ~drvResult[1].success

\* C27: move_step with a direction that is None or, stripped and lowered, not
\* one of cw, clockwise, ccw, counterclockwise, counter-clockwise raises
\* ValueError and issues no command at all, neither the move nor the stop.
C27_MalformedDirection ==
    (drvCall.op = "move_step" /\ drvCall.dir \in {"left", "", "c w", NoneDir}) =>
        /\ cmdLog = <<>>
        /\ drvPc \in {"call", "done"}
        /\ drvPc = "done" => drvOutcome = "ValueError"

\* move_step('left') has raised with a valid channel, speed and duration.
C27_Witness ==
    /\ drvCall.op = "move_step" /\ drvPc = "done"
    /\ drvCall.dir = "left"
    /\ drvCall.ch >= 0
    /\ drvCall.speed = Num(500)
    /\ drvCall.dur = Num(1)
    /\ drvOutcome = "ValueError"
    /\ cmdLog = <<>>

\* C28: a move_step that returns has issued exactly two commands to its
\* channel, the move and then the stop, whatever the move's result was; when
\* the duration is <= 0, None or not a number the stop follows the move with
\* no wait, otherwise after the wait.
C28_MoveThenStop ==
    [][/\ (drvCall.op = "move_step" /\ drvPc = "call" /\ drvPc' # "done") =>
            /\ Len(cmdLog') = 1
            /\ drvPc' = (IF drvCall.dur.kind = "num" /\ drvCall.dur.val > 0
                         THEN "sleep" ELSE "stop")
       /\ (drvCall.op = "move_step" /\ drvPc # "done" /\ drvPc' = "done"
           /\ drvOutcome' = "returned") =>
            /\ drvPc = "stop"
            /\ Len(cmdLog') = 2
            /\ cmdLog'[1] = cmdLog[1]
            /\ cmdLog'[1].ch = drvCall.ch
            /\ cmdLog'[2].ch = drvCall.ch
            /\ cmdLog'[2].target = STOP_TARGET]_vars

\* A move_step with duration None has returned after a move that failed and
\* the stop.
C28_Witness ==
    /\ drvCall.op = "move_step" /\ drvPc = "done" /\ drvOutcome = "returned"
    /\ drvCall.dur.kind = "None"
    /\ Len(cmdLog) = 2
    /\ ~cmdLog[1].success
    /\ cmdLog[1].target # STOP_TARGET
    /\ cmdLog[2].target = STOP_TARGET

\* C30: when close() has ended on a controller that had a link, the link is
\* closed and the controller is disconnected, all 24 servos having been sent
\* the neutral pulse first; a close() after that issues nothing.
C30_CloseDisconnects ==
    (mCall.op = "close" /\ mPc = "done" /\ mLink # "none") =>
        /\ mLink = "closed"
        /\ ~mConnected
        /\ Len(mLog) >= NumChannels

\* Words that are decimal integers; the direction and speed words rotate accepts.
IntegerWords == {"0", "1", "-1", "5", "50", "100", "200"}

DirectionWords == {"-1", "0", "1"}

SpeedWords == {"0", "1", "5", "50", "100"}

\* A line of the help text's grammar: quit, stop_all, test <channel>,
\* stop <channel>, rotate <channel> <direction> <speed>.
WellFormed(command) ==
    \/ lower(command[1]) \in {"quit", "stop_all"} /\ Len(command) = 1
    \/ /\ lower(command[1]) \in {"test", "stop"}
       /\ Len(command) = 2
       /\ command[2] \in IntegerWords
    \/ /\ lower(command[1]) = "rotate"
       /\ Len(command) = 4
       /\ command[2] \in IntegerWords
       /\ command[3] \in DirectionWords
       /\ command[4] \in SpeedWords

\* A line whose first word is no command, or a test, stop or rotate line
\* with the wrong number of words, a word that is no integer, or a direction
\* or speed out of range.
Rejected(command) ==
    \/ lower(command[1]) \notin {"quit", "stop_all", "test", "stop", "rotate"}
    \/ lower(command[1]) \in {"test", "stop", "rotate"} /\ ~WellFormed(command)

\* C26 (as stated): 'quit' ends the loop, and every line that is not a
\* well-formed command prints an error, sends nothing to the controller and
\* leaves the loop at the prompt.
C26_ErrorOnMalformed ==
    [][(iPc = "prompt" /\ iCount' = iCount + 1 /\ iCommand' # <<>>) =>
         /\ iCommand' \in {<<"quit">>, <<"QUIT">>} => iPc' = "break"
         /\ ~WellFormed(iCommand') =>
              /\ iPrinted' # ""
              /\ mLog' = mLog
              /\ iPc' = "prompt"]_vars

\* C26 (amended): a line whose first word is quit ends the loop; a line whose
\* first word is no command, and a test, stop or rotate line with the wrong
\* number of words, a non-integer argument, or a direction or speed out of
\* range, prints an error, sends nothing to the controller and leaves the
\* loop at the prompt.
C26_ErrorOnRejected ==
    [][(iPc = "prompt" /\ iCount' = iCount + 1 /\ iCommand' # <<>>) =>
         /\ lower(iCommand'[1]) = "quit" => (iPc' = "break" /\ mLog' = mLog)
         /\ Rejected(iCommand') =>
              /\ iPrinted' \in {"Invalid command. Type 'quit' to exit.",
                                "Invalid command format."}
              /\ mLog' = mLog
              /\ iPc' = "prompt"]_vars

\* After a command that reached the controller, a rotate with direction 5
\* was refused and the loop is at the prompt again.
C26_Witness ==
    /\ iPc = "prompt"
    /\ iCount = 2
    /\ iCommand = <<"rotate", "0", "5", "50">>
    /\ iPrinted = "Invalid command format."
    /\ Len(mLog) = 1

\* C31: a rotate with direction outside -1..1 or speed outside 0..100 raises
\* and sends no setTarget; with direction 0 (and a speed in range) it sends
\* one command, the neutral pulse; otherwise the one position it sends lies
\* in [pulse_min, pulse_max].
C31_RotateValidation ==
    (mCall.op = "rotate" /\ mPc = "done") =>
        IF ~mConnected
        THEN mOutcome = "RuntimeError" /\ mLog = <<>>
        ELSE IF mCall.direction \notin {-1, 0, 1} \/ mCall.speed < 0 \/ mCall.speed > 100
        THEN mOutcome = "ValueError" /\ mLog = <<>>
        ELSE /\ mOutcome \in {"returned", "SerialException"}
             /\ mOutcome = "returned" =>
                  /\ Len(mLog) = 1
                  /\ mLog[1].ch = mCall.ch
                  /\ mLog[1].target >= pulse_min(mProfile)
                  /\ mLog[1].target <= pulse_max(mProfile)
                  /\ mCall.direction = 0 => mLog[1].target = pulse_neutral(mProfile)
             /\ mOutcome = "SerialException" => mLog = <<>>

\* A rotate with direction 2 at a valid speed has raised ValueError on a
\* connected controller.
C31_Witness ==
    /\ mCall.op = "rotate" /\ mPc = "done"
    /\ mConnected
    /\ mCall.direction = 2
    /\ mCall.speed = 50
    /\ mOutcome = "ValueError"
    /\ mLog = <<>>

\* The operations of MaestroServoController that address the device.
HardwareOps ==
    {"rotate", "stop", "stop_all", "set_position", "get_position", "is_moving",
     "test_fs90r_calibration"}

\* C32: on a controller that is not connected, each of rotate, stop,
\* stop_all, set_position, get_position, is_moving and
\* test_fs90r_calibration raises RuntimeError at once, sends nothing, and
\* leaves the controller's state as it was.
C32_NotConnected ==
    [][(mPc = "call" /\ mCall.op \in HardwareOps /\ ~mConnected) =>
         /\ mPc' = "done"
         /\ mOutcome' = "RuntimeError"
         /\ mLog' = mLog
         /\ UNCHANGED <<mConnected, mLink, mCloses, mProfile>>]_vars

\* test_fs90r_calibration has raised RuntimeError on a controller without a
\* link.
C32_Witness ==
    /\ mCall.op = "test_fs90r_calibration" /\ mPc = "done"
    /\ ~mConnected
    /\ mLink = "none"
    /\ mOutcome = "RuntimeError"
    /\ mLog = <<>>

\* C33: when test_fs90r_calibration has returned, the last target sent to the
\* channel is the profile's pulse_neutral and every target sent lies within
\* the profile's [pulse_min, pulse_max].
C33_CalibrationWithinProfile ==
    (mCall.op = "test_fs90r_calibration" /\ mPc = "done" /\ mOutcome = "returned") =>
        /\ mLog # <<>>
        /\ mLog[Len(mLog)].target = pulse_neutral(mProfile)
        /\ \A i \in 1..Len(mLog) :
             /\ mLog[i].ch = mCall.ch
             /\ mLog[i].target >= pulse_min(mProfile)
             /\ mLog[i].target <= pulse_max(mProfile)

C36_SavesApartAndReleased ==
    /\ \A i, j \in DOMAIN cSaves : i < j => cSaves[j] - cSaves[i] >= save_interval
    /\ cCamera = "open" => cPc \in {"read", "direction", "save", "key", "finally"}
    /\ cPc = "done" => cCamera \in {"failed", "released"}

\* Two images were saved, and the loop has ended with the camera released.
C36_Witness ==
    /\ Len(cSaves) = 2
    /\ cPc = "done"
    /\ cCamera = "released"

====
